---- MODULE Spec2Model ----
(***************************************************************************)
(* A-Task: a browser extension that queues prompts and submits them, one   *)
(* at a time, to an AI web page.                                           *)
(*                                                                         *)
(* The module holds three state machines over one set of variables:        *)
(*                                                                         *)
(*   Spec       the service worker of src/unnamed/part_004 (coordinator)   *)
(*              together with the content script whose monitoring loop is  *)
(*              a recursive timer with a watchdog                          *)
(*              (src/src/utils/markdown-renderer.ts, lines 195-546);       *)
(*   SpecRetry  the service worker of src/src/background.ts, the revision  *)
(*              that still carries the whole-task retry policy, together   *)
(*              with the content script of src/src/content.ts;             *)
(*   SpecSession the checkStatus state machines of the Gemini and ChatGPT  *)
(*              adapters.                                                  *)
(*                                                                         *)
(* Every asynchronous handler is cut at its awaits: one action per stretch *)
(* of code that runs without yielding to the event loop.  A handler that   *)
(* is suspended at an await is an "activation" (a slot of acts / ctx)      *)
(* whose pc names the await it is parked on.  The awaits that park a       *)
(* handler are the slow ones: a message round trip to the page, a probe,   *)
(* a timer.  A chrome.storage round trip (a TaskStorage call) is taken to  *)
(* be immediate: it belongs to the step that issues it, except the read of *)
(* startNextPendingTask, which is a step of its own.                       *)
(***************************************************************************)
EXTENDS Integers, Sequences, FiniteSets, TLC

\* ---------------------------------------------------------------- bounds
MaxTasks == 2      \* tasks the user adds to the store
MaxActs == 2       \* coordinator handlers suspended at an await at once
MaxUpdates == 1    \* TASK_STATUS_UPDATE messages in flight
MaxSteps == 2      \* steps of a multi-step task
MaxTicks == 1      \* monitoring ticks suspended inside executeNextStep
MaxStarts == 1     \* clicks on a start button
MaxStops == 1      \* clicks on a stop button
MaxLen == 2        \* length of the latest response on the page
MaxWriters == 2    \* handlers inside a storage call at the same time
MaxHandlers == 3   \* handlers that write the store, in total
MaxRuns == 2       \* runs of executeTask probing the page at the same time

\* ------------------------------------------------------- program values
None == 0
PENDING == "pending"
RUNNING == "running"
COMPLETED == "completed"
FAILED == "failed"
TaskStatus == {PENDING, RUNNING, COMPLETED, FAILED}
DefaultMaxRetries == 3
StableThreshold == 3

VARIABLES
  store,        \* TaskStorage: the persisted task list, in store order
  currentTask,  \* service worker: id of the task being executed, or None
  acts,         \* service worker: suspended handler activations
  newTaskMsgs,  \* NEW_TASK_ADDED messages sent by the side panel, not yet handled
  updates,      \* TASK_STATUS_UPDATE messages sent by the content script, in order
  ctTask,       \* content script: currentTask (id) or None
  ctAdapter,    \* content script: currentAdapter is non-null
  ctStep,       \* content script: currentStepIndex
  ctTimer,      \* content script: pending monitoring timeout (its taskId) or None
  ctWatchdog,   \* content script: running watchdog interval (its taskId) or None
  ctx,          \* content script: ticks suspended inside executeNextStep
  cancelled,    \* history: tasks whose run was stopped and not started again
  stopResp,     \* history: response of the last completed handleStopTask
  clicks,       \* history: start and stop clicks so far
  failures,     \* history: per task, the failures handled by handleTaskFailure
  session,      \* content script: the adapter's monitoring state and the page it watches
  send,         \* service worker: the call of sendMessageToContentScript under way
  parse,       \* side panel: the content being parsed into steps and the results
  exec,        \* task executor: the run of TaskExecutor.execute() under way
  wr,          \* storage: the handlers between a read and a write of the task list
  probe         \* service worker: the probes and injections of the runs of executeTask

vars == <<store, currentTask, acts, newTaskMsgs, updates, ctTask, ctAdapter,
          ctStep, ctTimer, ctWatchdog, ctx, cancelled, stopResp, clicks, failures, session, send, parse, exec, wr, probe>>

coordVars == <<currentTask, acts, newTaskMsgs>>
ctVars == <<ctTask, ctAdapter, ctStep, ctTimer, ctWatchdog, ctx>>
histVars == <<cancelled, stopResp, clicks, failures>>
queueVars == <<store, coordVars, updates, ctVars, histVars, send, parse, exec, wr, probe>>

\* ------------------------------------------------------------ the store
NoAct == [pc |-> "none", task |-> None, origin |-> "none", idx |-> 0]
NoTick == [pc |-> "none", task |-> None]

NewTask(n, m) ==
  [status |-> PENDING,
   steps |-> [i \in 1..(IF n >= 2 THEN n ELSE 0) |-> PENDING],
   idx |-> 0, retryCount |-> 0, maxRetries |-> m, err |-> FALSE]

\* tasks.find(t => t.id === taskId): ids are positions in the list
HasTask(s, id) == id \in DOMAIN s

\* TaskStorage.updateTask: tasks[index] = { ...tasks[index], ...updates }
updateTask(s, id, upd) ==
  IF HasTask(s, id)
  THEN [s EXCEPT ![id] = [f \in DOMAIN s[id] |->
                            IF f \in DOMAIN upd THEN upd[f] ELSE s[id][f]]]
  ELSE s

\* TaskStorage.updateStepStatus(taskId, stepIndex, status); steps are 0-based
updateStepStatus(s, id, stepIndex, status) ==
  IF HasTask(s, id) /\ stepIndex + 1 \in DOMAIN s[id].steps
  THEN [s EXCEPT ![id].steps[stepIndex + 1] = status]
  ELSE s

\* a find that returns the last Pending task
FirstPending_last(s) ==
  IF \E i \in DOMAIN s : s[i].status = PENDING
  THEN CHOOSE i \in DOMAIN s :
         /\ s[i].status = PENDING
         /\ \A j \in DOMAIN s : s[j].status = PENDING => j <= i
  ELSE None

\* tasks.find(t => t.status === PENDING): the first Pending task, or None
FirstPending(s) ==
  IF \E i \in DOMAIN s : s[i].status = PENDING
  THEN CHOOSE i \in DOMAIN s :
         /\ s[i].status = PENDING
         /\ \A j \in DOMAIN s : s[j].status = PENDING => i <= j
  ELSE None

RunningTasks(s) == {i \in DOMAIN s : s[i].status = RUNNING}

\* ------------------------------------------------- activation bookkeeping
FreeSlots == {a \in DOMAIN acts : acts[a].pc = "none"}
HasFree == FreeSlots # {}
Alloc(f, rec) ==
  LET a == CHOOSE x \in {y \in DOMAIN f : f[y].pc = "none"} :
             \A z \in {y \in DOMAIN f : f[y].pc = "none"} : x <= z
  IN [f EXCEPT ![a] = rec]

\* the page the adapter watches: a visible stop button, a send button, a
\* displayed loading indicator, an error alert, the length of the latest
\* response's text (0: there is no response element)
Pages ==
  [stop : BOOLEAN, button : BOOLEAN, loading : BOOLEAN, alert : BOOLEAN, len : 0..MaxLen]

\* no call of sendMessageToContentScript is under way
NoSend ==
  [pc |-> "idle", siteType |-> "none", message |-> "none", retries |-> 0,
   attempt |-> 0, attempts |-> 0, delivered |-> FALSE, error |-> "none", named |-> 0]

\* nothing has been parsed: no content, no result (a result is the steps
\* array, or null when present is false)
NoSteps == [present |-> FALSE, steps |-> <<>>]
NoParse == [pc |-> "idle", content |-> <<>>, first |-> NoSteps, second |-> NoSteps]

\* no TaskExecutor is at work.  i is the loop index of executeMultiStep,
\* content what the adapter was last asked to submit; submissions and
\* verdicts count the submitTask() calls and the terminal answers of
\* checkStatus() of this run
NoExec ==
  [pc |-> "idle", task |-> None, i |-> 0, content |-> [kind |-> "none", index |-> 0],
   submissions |-> 0, verdicts |-> 0]

\* no handler is inside a storage call
NoWriter == [pc |-> "idle", ops |-> <<>>, tasks |-> <<>>]
NoWr == [procs |-> [w \in 1..MaxWriters |-> NoWriter], started |-> 0]

\* no executeTask is probing the page.  site: the active tab shows a
\* supported site; script: a content script listens in it
NoRun == [pc |-> "idle", pings |-> 0, injections |-> 0, first |-> "none", result |-> "none"]
NoProbe == [site |-> FALSE, script |-> FALSE, runs |-> [r \in 1..MaxRuns |-> NoRun]]

\* no adapter has been created
NoSession ==
  [adapter |-> "none", active |-> FALSE,
   hasSeenBusyState |-> FALSE, observerConfirmedIdle |-> FALSE,
   stableCheckCount |-> 0, lastResponseLength |-> 0,
   observer |-> FALSE, completionCheckTimer |-> FALSE, fallbackTimer |-> FALSE,
   page |-> [stop |-> FALSE, button |-> TRUE, loading |-> FALSE, alert |-> FALSE, len |-> 0],
   reported |-> "none", seenBusy |-> FALSE]

Init ==
  /\ session = NoSession
  /\ send = NoSend
  /\ parse = NoParse
  /\ exec = NoExec
  /\ wr = NoWr
  /\ probe = NoProbe
  /\ store = <<>>
  /\ currentTask = None
  /\ acts = [a \in 1..MaxActs |-> NoAct]
  /\ newTaskMsgs = 0
  /\ updates = <<>>
  /\ ctTask = None
  /\ ctAdapter = FALSE
  /\ ctStep = 0
  /\ ctTimer = None
  /\ ctWatchdog = None
  /\ ctx = [k \in 1..MaxTicks |-> NoTick]
  /\ cancelled = {}
  /\ stopResp = "none"
  /\ clicks = [start |-> 0, stop |-> 0]
  /\ failures = [t \in 1..MaxTasks |-> 0]

\* ======================================================================
\* The content script (src/src/utils/markdown-renderer.ts:195-546)
\* ======================================================================

\* a cleanupTaskState that clears the timers and keeps the adapter and the task
CleanupTaskState_keepAdapter ==
  /\ ctAdapter' = ctAdapter
  /\ ctTask' = ctTask
  /\ ctStep' = ctStep
  /\ ctWatchdog' = None
  /\ ctTimer' = None

\* cleanupTaskState(): the five assignments and the two clear calls
CleanupTaskState ==
  /\ ctAdapter' = FALSE
  /\ ctTask' = None
  /\ ctStep' = 0
  /\ ctWatchdog' = None
  /\ ctTimer' = None

\* isMultiStepTask() and hasMoreSteps() on the task object the script holds
isMultiStepTask == ctTask # None /\ HasTask(store, ctTask) /\ Len(store[ctTask].steps) > 1
hasMoreSteps ==
  /\ ctTask # None /\ HasTask(store, ctTask)
  /\ store[ctTask].steps # <<>>
  /\ ctStep < Len(store[ctTask].steps) - 1

\* scheduleStatusCheck(taskId): clear the pending timeout; without an adapter
\* the loop ends, otherwise a new timeout is armed
scheduleStatusCheck(taskId, adapter) == IF adapter THEN taskId ELSE None

\* chrome.runtime.sendMessage({type: 'TASK_STATUS_UPDATE', taskId, status})
SendStatus(taskId, status) == updates' = Append(updates, [task |-> taskId, status |-> status])

\* chrome.runtime.sendMessage({type: 'STEP_PROGRESS', taskId, stepIndex, ...});
\* the message travels on the same port as the status updates
STEP_PROGRESS == "STEP_PROGRESS"
SendStepProgress(taskId, stepIndex) ==
  updates' = Append(updates, [task |-> taskId, status |-> STEP_PROGRESS, step |-> stepIndex])

\* The callback of the monitoring timeout, up to its first real await.
\* status is what currentAdapter.checkStatus() returns on this tick.
MonitoringTick(status) ==
  /\ ctTimer # None
  /\ LET taskId == ctTimer IN
     IF ~ctAdapter
     THEN /\ ctTimer' = None
          /\ UNCHANGED <<ctTask, ctAdapter, ctStep, ctWatchdog, ctx, updates>>
     ELSE
       CASE status = COMPLETED /\ isMultiStepTask /\ hasMoreSteps ->
              \* executeNextStep: STEP_PROGRESS, currentStepIndex++, 2 s settle
              /\ \E k \in DOMAIN ctx : ctx[k].pc = "none"
              /\ Len(updates) < MaxUpdates
              /\ SendStepProgress(taskId, ctStep)
              /\ ctx' = Alloc(ctx, [pc |-> "settle", task |-> taskId])
              /\ ctStep' = ctStep + 1
              /\ ctTimer' = None
              /\ UNCHANGED <<ctTask, ctAdapter, ctWatchdog>>
         [] status = COMPLETED /\ ~(isMultiStepTask /\ hasMoreSteps) ->
              /\ Len(updates) < MaxUpdates
              /\ SendStatus(taskId, COMPLETED)
              /\ CleanupTaskState
              /\ UNCHANGED ctx
         [] status = FAILED ->
              /\ Len(updates) < MaxUpdates
              /\ SendStatus(taskId, FAILED)
              /\ CleanupTaskState
              /\ UNCHANGED ctx
         [] OTHER ->
              /\ status = RUNNING
              /\ ctTimer' = scheduleStatusCheck(taskId, ctAdapter)
              /\ UNCHANGED <<ctTask, ctAdapter, ctStep, ctWatchdog, ctx, updates>>
  /\ UNCHANGED <<store, coordVars, histVars, session, send, parse, exec, wr, probe>>

\* executeNextStep after the settle delay: currentAdapter.cleanup(), the new
\* adapter, and the start of submitTask().  With the adapter gone (a stop ran
\* during the delay) the call throws, the catch block reports FAILED and the
\* tick cleans up.
NextStepSettled(k) ==
  /\ ctx[k].pc = "settle"
  /\ IF ~ctAdapter
     THEN /\ Len(updates) < MaxUpdates
          /\ SendStatus(ctx[k].task, FAILED)
          /\ CleanupTaskState
          /\ ctx' = [ctx EXCEPT ![k] = NoTick]
     ELSE /\ ctx' = [ctx EXCEPT ![k].pc = "nextSubmit"]
          /\ UNCHANGED <<ctTask, ctAdapter, ctStep, ctTimer, ctWatchdog, updates>>
  /\ UNCHANGED <<store, coordVars, histVars, session, send, parse, exec, wr, probe>>

\* executeNextStep: the race of submitTask() against the 30 s timeout, and
\* the rest of the tick.  outcome: "ok", "fail" (false or a throw), "timeout".
NextStepSubmitted(k, outcome) ==
  /\ ctx[k].pc = "nextSubmit"
  /\ ctx' = [ctx EXCEPT ![k] = NoTick]
  /\ CASE outcome = "ok" ->
            /\ ctTimer' = scheduleStatusCheck(ctx[k].task, ctAdapter)
            /\ UNCHANGED <<ctTask, ctAdapter, ctStep, ctWatchdog, updates>>
       [] outcome = "fail" ->
            /\ Len(updates) < MaxUpdates
            /\ SendStatus(ctx[k].task, FAILED)
            /\ CleanupTaskState
       [] OTHER ->
            /\ outcome = "timeout"
            /\ CleanupTaskState
            /\ UNCHANGED updates
  /\ UNCHANGED <<store, coordVars, histVars, session, send, parse, exec, wr, probe>>

\* The watchdog interval (every 4 s).  More than 8 s without a tick can
\* only pass while no timeout is pending and no tick sits in its 2 s settle
\* delay: every timeout is armed for at most 5 s.
WatchdogStalled == ctTimer = None /\ \A k \in DOMAIN ctx : ctx[k].pc # "settle"

\* a watchdog that only ever stops itself
Watchdog_asleep ==
  /\ ctWatchdog # None
  /\ ctWatchdog' = IF ctAdapter THEN ctWatchdog ELSE None
  /\ UNCHANGED <<store, coordVars, histVars, ctTask, ctAdapter, ctStep, ctTimer, ctx, updates, session, send, parse, exec, wr, probe>>

Watchdog ==
  /\ ctWatchdog # None
  /\ IF ~ctAdapter
     THEN /\ ctWatchdog' = None
          /\ UNCHANGED ctTimer
     ELSE /\ WatchdogStalled
          /\ ctTimer' = scheduleStatusCheck(ctWatchdog, ctAdapter)
          /\ UNCHANGED ctWatchdog
  /\ UNCHANGED <<store, coordVars, histVars, ctTask, ctAdapter, ctStep, ctx, updates, session, send, parse, exec, wr, probe>>

\* ======================================================================
\* The side panel (src/src/sidepanel/sidepanel.ts)
\* ======================================================================

\* handleSubmitTask: TaskStorage.addTask, then the NEW_TASK_ADDED message.
\* n is the number of steps the parser found (1: no steps).
AddTask(n) ==
  /\ Len(store) < MaxTasks
  /\ store' = Append(store, NewTask(n, DefaultMaxRetries))
  /\ newTaskMsgs' = newTaskMsgs + 1
  /\ UNCHANGED <<currentTask, acts, updates, ctVars, histVars, session, send, parse, exec, wr, probe>>

\* ======================================================================
\* The service worker (src/unnamed/part_004)
\* ======================================================================

\* a startNextPendingTask that never goes on to the queue
startNextPendingTask_noop(cur, f) == f

\* startNextPendingTask up to its await of getAllTasks: the single-flight guard
startNextPendingTask(cur, f) ==
  IF cur # None THEN f ELSE Alloc(f, [pc |-> "find", task |-> None, origin |-> "queue", idx |-> 0])

NeedsSlot(cur) == cur = None => HasFree

\* handleNewTaskAdded
HandleNewTaskAdded ==
  /\ newTaskMsgs > 0
  /\ NeedsSlot(currentTask)
  /\ newTaskMsgs' = newTaskMsgs - 1
  /\ acts' = startNextPendingTask(currentTask, acts)
  /\ UNCHANGED <<store, currentTask, updates, ctVars, histVars, session, send, parse, exec, wr, probe>>

\* startNextPendingTask after getAllTasks: the first Pending task goes to
\* executeTask, which parks on the probe of the page
StartNextFound(a) ==
  /\ acts[a].pc = "find"
  /\ LET p == FirstPending(store) IN
       /\ acts' = [acts EXCEPT ![a] = IF p = None THEN NoAct
                                      ELSE [pc |-> "probe", task |-> p, origin |-> "queue",
                                            idx |-> store[p].idx]]
       /\ cancelled' = cancelled \ {p}
  /\ UNCHANGED <<store, currentTask, newTaskMsgs, updates, ctVars, stopResp, clicks, failures, session, send, parse, exec, wr, probe>>

\* handleStartTask: the task is looked up and handed to executeTask without a
\* look at currentTask.  The side panel offers the start button on a task it
\* shows as Pending.
HandleStartTask(t) ==
  /\ HasTask(store, t) /\ store[t].status = PENDING
  /\ HasFree
  /\ clicks.start < MaxStarts
  /\ clicks' = [clicks EXCEPT !.start = @ + 1]
  /\ acts' = Alloc(acts, [pc |-> "probe", task |-> t, origin |-> "user",
                          idx |-> store[t].idx])
  /\ cancelled' = cancelled \ {t}
  /\ UNCHANGED <<store, currentTask, newTaskMsgs, updates, ctVars, stopResp, failures, session, send, parse, exec, wr, probe>>

\* a catch block that writes FAILED without the error message and keeps the
\* pointer
ExecuteCatch_silent(t) ==
  /\ store' = updateTask(store, t, [status |-> FAILED])
  /\ currentTask' = currentTask

\* executeTask, the catch block (lines 451-463): FAILED and the error are
\* written, the pointer is released when it is this task's
ExecuteCatch(t) ==
  /\ store' = updateTask(store, t, [status |-> FAILED, err |-> TRUE])
  /\ currentTask' = IF currentTask # None /\ currentTask = t THEN None ELSE currentTask

\* executeTask, lines 401-447, once the probe of the page has ended
\* (getActiveSupportedSite, the PING, on no answer one injection and a second
\* PING).  reachable: the page answered in the end.  Then currentTask is set,
\* RUNNING is written and SUBMIT_TASK is sent; the content script's
\* handleSubmitTask stores the task, creates the adapter and parks on
\* submitTask().
ExecuteProbed(a, reachable) ==
  /\ acts[a].pc = "probe"
  /\ IF reachable
     THEN /\ currentTask' = acts[a].task
          /\ store' = updateTask(store, acts[a].task, [status |-> RUNNING])
          /\ ctTask' = acts[a].task
          /\ ctStep' = acts[a].idx
          /\ ctAdapter' = TRUE
          /\ acts' = [acts EXCEPT ![a].pc = "awaitSubmit"]
          /\ UNCHANGED <<ctTimer, ctWatchdog, ctx>>
     ELSE /\ ExecuteCatch(acts[a].task)
          /\ acts' = [acts EXCEPT ![a] = NoAct]
          /\ UNCHANGED ctVars
  /\ UNCHANGED <<newTaskMsgs, updates, histVars, session, send, parse, exec, wr, probe>>

\* handleSubmitTask after submitTask(): on success startStatusMonitoring and
\* {success: true}, which ends executeTask; otherwise cleanupTaskState and
\* {success: false}, which executeTask turns into a throw and its catch block.
SubmitAnswered(a, success) ==
  /\ acts[a].pc = "awaitSubmit"
  /\ acts' = [acts EXCEPT ![a] = NoAct]
  /\ IF success
     THEN /\ ctTimer' = scheduleStatusCheck(acts[a].task, ctAdapter)
          /\ ctWatchdog' = acts[a].task
          /\ UNCHANGED <<ctTask, ctAdapter, ctStep, store, currentTask>>
     ELSE /\ CleanupTaskState
          /\ ExecuteCatch(acts[a].task)
  /\ UNCHANGED <<newTaskMsgs, updates, ctx, histVars, session, send, parse, exec, wr, probe>>

\* a handleStopTask that writes PENDING only when it found the run in progress
StopWritten_onlyActive(t, wasRunning) ==
  /\ store' = IF wasRunning THEN updateTask(store, t, [status |-> PENDING]) ELSE store
  /\ cancelled' = IF wasRunning THEN cancelled \cup {t} ELSE cancelled
  /\ stopResp' = "success"

\* handleStopTask, lines 324-329: PENDING is written whatever the pointer
\* was, and {success: true} is returned.  wasRunning: the stop found a run of
\* the task in progress (history only).
StopWritten(t, wasRunning) ==
  /\ store' = updateTask(store, t, [status |-> PENDING])
  /\ cancelled' = IF wasRunning THEN cancelled \cup {t} ELSE cancelled
  /\ stopResp' = "success"

\* handleStopTask up to its first await.  With the pointer on this task the
\* handler parks on sendMessageToContentScript(STOP_TASK); otherwise it goes
\* straight to the write.  The side panel's list is redrawn asynchronously, so
\* a stop can arrive for a task in any state.
HandleStopTask(t) ==
  /\ HasTask(store, t)
  /\ clicks.stop < MaxStops
  /\ clicks' = [clicks EXCEPT !.stop = @ + 1]
  /\ IF currentTask # None /\ currentTask = t
     THEN /\ HasFree
          /\ acts' = Alloc(acts, [pc |-> "stopSend", task |-> t, origin |-> "user", idx |-> 0])
          /\ UNCHANGED <<store, cancelled, stopResp>>
     ELSE /\ StopWritten(t, store[t].status = RUNNING)
          /\ UNCHANGED acts
  /\ UNCHANGED <<currentTask, newTaskMsgs, updates, ctVars, failures, session, send, parse, exec, wr, probe>>

\* a handleStopTask that never reaches the page and keeps the pointer
StopSent_unsent(a, received) ==
  /\ acts[a].pc = "stopSend"
  /\ StopWritten(acts[a].task, TRUE)
  /\ acts' = [acts EXCEPT ![a] = NoAct]
  /\ UNCHANGED <<currentTask, newTaskMsgs, updates, ctVars, clicks, failures, session, send, parse, exec, wr, probe>>

\* handleStopTask, lines 310-329, once sendMessageToContentScript has ended.
\* received: the content script ran its handleStopTask (timer cleared,
\* stopCurrentTask, cleanupTaskState); otherwise every attempt failed and the
\* error is swallowed.  Then currentTask = null and the write.
StopSent(a, received) ==
  /\ acts[a].pc = "stopSend"
  /\ IF received
     THEN IF ctAdapter THEN CleanupTaskState
          ELSE /\ ctTimer' = None
               /\ UNCHANGED <<ctTask, ctAdapter, ctStep, ctWatchdog>>
     ELSE UNCHANGED <<ctTask, ctAdapter, ctStep, ctTimer, ctWatchdog>>
  /\ currentTask' = None
  /\ StopWritten(acts[a].task, TRUE)
  /\ acts' = [acts EXCEPT ![a] = NoAct]
  /\ UNCHANGED <<newTaskMsgs, updates, ctx, clicks, failures, session, send, parse, exec, wr, probe>>

\* handleTaskStatusUpdate for the oldest TASK_STATUS_UPDATE in flight: the
\* status is written; a terminal status releases the pointer when it is this
\* task's and calls startNextPendingTask
HandleTaskStatusUpdate ==
  /\ updates # <<>>
  /\ Head(updates).status \in TaskStatus
  /\ LET m == Head(updates)
         terminal == m.status \in {COMPLETED, FAILED}
         cur == IF terminal /\ currentTask = m.task THEN None ELSE currentTask
     IN
       /\ terminal => NeedsSlot(cur)
       /\ store' = updateTask(store, m.task, [status |-> m.status])
       /\ currentTask' = cur
       /\ acts' = IF terminal THEN startNextPendingTask(cur, acts) ELSE acts
  /\ updates' = Tail(updates)
  /\ UNCHANGED <<newTaskMsgs, ctVars, histVars, session, send, parse, exec, wr, probe>>

\* handleStepProgress for the oldest STEP_PROGRESS in flight (lines
\* 383-392): the step is marked COMPLETED and currentStepIndex is set to the
\* index after it
HandleStepProgress ==
  /\ updates # <<>>
  /\ Head(updates).status = STEP_PROGRESS
  /\ LET m == Head(updates) IN
       store' = updateTask(updateStepStatus(store, m.task, m.step, COMPLETED),
                           m.task, [idx |-> m.step + 1])
  /\ updates' = Tail(updates)
  /\ UNCHANGED <<coordVars, ctVars, histVars, session, send, parse, exec, wr, probe>>

Next ==
  \/ \E n \in 1..MaxSteps : AddTask(n)
  \/ HandleNewTaskAdded
  \/ \E a \in DOMAIN acts : StartNextFound(a)
  \/ \E t \in 1..MaxTasks : HandleStartTask(t)
  \/ \E a \in DOMAIN acts, reachable \in BOOLEAN : ExecuteProbed(a, reachable)
  \/ \E a \in DOMAIN acts, success \in BOOLEAN : SubmitAnswered(a, success)
  \/ \E t \in 1..MaxTasks : HandleStopTask(t)
  \/ \E a \in DOMAIN acts, received \in BOOLEAN : StopSent(a, received)
  \/ HandleTaskStatusUpdate
  \/ HandleStepProgress
  \/ \E status \in {RUNNING, COMPLETED, FAILED} : MonitoringTick(status)
  \/ \E k \in DOMAIN ctx : NextStepSettled(k)
  \/ \E k \in DOMAIN ctx, outcome \in {"ok", "fail", "timeout"} : NextStepSubmitted(k, outcome)
  \/ Watchdog

Spec == Init /\ [][Next]_vars

\* ======================================================================
\* The service worker with the retry policy (src/src/background.ts) and
\* the content script of src/src/content.ts
\* ======================================================================

\* a retry test that gives up one failure earlier
RetryAllowed_early(task) == task.retryCount + 1 < task.maxRetries

\* handleTaskFailure, line 491: the retry test
RetryAllowed(task) == task.retryCount < task.maxRetries

\* a retry that writes the retry count back as it was
NextRetryCount_same(task) == task.retryCount

\* handleTaskFailure, line 497: the retry count that is written
NextRetryCount(task) == task.retryCount + 1

\* executeNextTask up to its await of getNextPendingTask
executeNextTask(cur, f) ==
  IF cur # None THEN f ELSE Alloc(f, [pc |-> "find", task |-> None, origin |-> "none", idx |-> 0])

\* TaskStorage.moveToNextStep: is there a next step
hasNextStep(s, id) ==
  /\ HasTask(s, id)
  /\ s[id].steps # <<>>
  /\ s[id].idx + 1 < Len(s[id].steps)

\* TaskStorage.moveToNextStep: the store it leaves
moveToNextStep(s, id) ==
  IF hasNextStep(s, id) THEN [s EXCEPT ![id].idx = @ + 1] ELSE s

\* handleTaskFailure(taskId), entered with store s, pointer cur and
\* activations f: with retries left the task goes back to PENDING with its
\* retry count raised and a 5 s timer is armed; otherwise the pointer is
\* cleared and executeNextTask is called
handleTaskFailure(s, cur, f, t) ==
  /\ failures' = [failures EXCEPT ![t] = @ + 1]
  /\ UNCHANGED <<session, send, parse, exec, wr, probe>>
  /\ IF RetryAllowed(s[t])
     THEN /\ store' = updateTask(s, t, [status |-> PENDING,
                                        retryCount |-> NextRetryCount(s[t])])
          /\ currentTask' = cur
          /\ acts' = Alloc(f, [pc |-> "retryDelay", task |-> t, origin |-> "none", idx |-> 0])
     ELSE /\ store' = s
          /\ currentTask' = None
          /\ acts' = executeNextTask(None, f)

\* handleNewTaskAdded: if (!currentTask) await executeNextTask()
NewTaskAdded ==
  /\ newTaskMsgs > 0
  /\ NeedsSlot(currentTask)
  /\ newTaskMsgs' = newTaskMsgs - 1
  /\ acts' = executeNextTask(currentTask, acts)
  /\ UNCHANGED <<store, currentTask, updates, ctVars, histVars, session, send, parse, exec, wr, probe>>

\* executeTask up to its first slow await (lines 428-437): the pointer is set
\* and RUNNING is written before the tab is looked for
executeTaskBegin(t) ==
  /\ currentTask' = t
  /\ store' = updateTask(store, t, [status |-> RUNNING])

\* executeNextTask after getNextPendingTask
NextTaskFound(a) ==
  /\ acts[a].pc = "find"
  /\ LET p == FirstPending(store) IN
       IF p = None
       THEN /\ acts' = [acts EXCEPT ![a] = NoAct]
            /\ UNCHANGED <<store, currentTask>>
       ELSE /\ acts' = [acts EXCEPT ![a] = [pc |-> "exec", task |-> p, origin |-> "none", idx |-> 0]]
            /\ executeTaskBegin(p)
  /\ UNCHANGED <<newTaskMsgs, updates, ctVars, cancelled, stopResp, clicks, failures, session, send, parse, exec, wr, probe>>

\* handleStartTask: the task is looked up and handed to executeTask
StartTask(t) ==
  /\ HasTask(store, t) /\ store[t].status = PENDING
  /\ HasFree
  /\ clicks.start < MaxStarts
  /\ clicks' = [clicks EXCEPT !.start = @ + 1]
  /\ acts' = Alloc(acts, [pc |-> "exec", task |-> t, origin |-> "none", idx |-> 0])
  /\ executeTaskBegin(t)
  /\ UNCHANGED <<newTaskMsgs, updates, ctVars, cancelled, stopResp, failures, session, send, parse, exec, wr, probe>>

\* content.ts handleSubmitTask: a new adapter, submitTask(); on success
\* startStatusMonitoring(task.id) replaces the interval, on failure the
\* adapter is dropped
SubmitOnPage(t, outcome) ==
  /\ ctAdapter' = (outcome = "ok")
  /\ ctTimer' = IF outcome = "ok" THEN t ELSE ctTimer
  /\ UNCHANGED <<ctTask, ctStep, ctWatchdog, ctx>>

\* executeTask, lines 439-476, once the tab, the 2 s wait and SUBMIT_TASK
\* have ended.  outcome: "ok", "noTab" (no tab, or no answer from the
\* page), "fail" (the page answered success: false).  The catch block writes
\* FAILED, clears the pointer and calls handleTaskFailure.
ExecuteAnswered(a, outcome) ==
  /\ acts[a].pc = "exec"
  /\ LET t == acts[a].task IN
       /\ IF outcome = "noTab" THEN UNCHANGED ctVars ELSE SubmitOnPage(t, outcome)
       /\ IF outcome = "ok"
          THEN /\ acts' = [acts EXCEPT ![a] = NoAct]
               /\ UNCHANGED <<store, currentTask, failures, session, send, parse, exec, wr, probe>>
          ELSE handleTaskFailure(updateTask(store, t, [status |-> FAILED, err |-> TRUE]),
                                 None, [acts EXCEPT ![a] = NoAct], t)
  /\ UNCHANGED <<newTaskMsgs, updates, cancelled, stopResp, clicks>>

\* the 5 s timer of handleTaskFailure fires: executeNextTask()
RetryTimerFires(a) ==
  /\ acts[a].pc = "retryDelay"
  /\ acts' = executeNextTask(currentTask, [acts EXCEPT ![a] = NoAct])
  /\ UNCHANGED <<store, currentTask, newTaskMsgs, updates, ctVars, histVars, session, send, parse, exec, wr, probe>>

\* content.ts startStatusMonitoring, one run of the interval callback: with
\* no adapter the interval is cleared; otherwise the adapter's status is sent
\* as TASK_STATUS_UPDATE, and a terminal status ends the monitoring
StatusInterval(status) ==
  /\ ctTimer # None
  /\ IF ~ctAdapter
     THEN /\ ctTimer' = None
          /\ UNCHANGED <<ctAdapter, updates>>
     ELSE /\ Len(updates) < MaxUpdates
          /\ updates' = Append(updates, [task |-> ctTimer, status |-> status])
          /\ IF status \in {COMPLETED, FAILED}
             THEN ctTimer' = None /\ ctAdapter' = FALSE
             ELSE UNCHANGED <<ctTimer, ctAdapter>>
  /\ UNCHANGED <<store, coordVars, histVars, ctTask, ctStep, ctWatchdog, ctx, session, send, parse, exec, wr, probe>>

\* handleTaskStatusUpdate (lines 318-404) for the oldest TASK_STATUS_UPDATE in
\* flight.  COMPLETED of the task the pointer is on: a task with more than
\* one step has its current step marked and, if a step is left, is moved on
\* and the handler parks on the 2 s wait; otherwise COMPLETED is written, the
\* pointer is cleared and executeNextTask is called.  FAILED: the status is
\* written and handleTaskFailure is called.  Any other status is written.
TaskStatusUpdate ==
  /\ updates # <<>>
  /\ LET m == Head(updates)
         t == m.task
         marked == updateStepStatus(store, t, store[t].idx, COMPLETED)
     IN
       IF m.status = COMPLETED /\ currentTask = t
       THEN IF Len(store[t].steps) > 1 /\ hasNextStep(marked, t)
            THEN /\ HasFree
                 /\ store' = moveToNextStep(marked, t)
                 /\ acts' = Alloc(acts, [pc |-> "nextStep", task |-> t, origin |-> "none", idx |-> 0])
                 /\ UNCHANGED <<currentTask, failures, session, send, parse, exec, wr, probe>>
            ELSE /\ HasFree
                 /\ store' = updateTask(IF Len(store[t].steps) > 1 THEN marked ELSE store,
                                        t, [status |-> COMPLETED])
                 /\ currentTask' = None
                 /\ acts' = executeNextTask(None, acts)
                 /\ UNCHANGED <<failures, session, send, parse, exec, wr, probe>>
       ELSE IF m.status = FAILED
            THEN /\ HasFree
                 /\ handleTaskFailure(updateTask(store, t, [status |-> FAILED]),
                                      currentTask, acts, t)
            ELSE /\ store' = updateTask(store, t, [status |-> m.status])
                 /\ UNCHANGED <<currentTask, acts, failures, session, send, parse, exec, wr, probe>>
  /\ updates' = Tail(updates)
  /\ UNCHANGED <<newTaskMsgs, ctVars, cancelled, stopResp, clicks>>

\* handleTaskStatusUpdate, lines 341-372, after the 2 s wait: the task is
\* read again and sent as SUBMIT_TASK; when that fails FAILED is written, the
\* pointer is cleared and handleTaskFailure is called
NextStepAnswered(a, outcome) ==
  /\ acts[a].pc = "nextStep"
  /\ LET t == acts[a].task IN
       /\ IF outcome = "noTab" THEN UNCHANGED ctVars ELSE SubmitOnPage(t, outcome)
       /\ IF outcome = "ok"
          THEN /\ acts' = [acts EXCEPT ![a] = NoAct]
               /\ UNCHANGED <<store, currentTask, failures, session, send, parse, exec, wr, probe>>
          ELSE handleTaskFailure(updateTask(store, t, [status |-> FAILED, err |-> TRUE]),
                                 None, [acts EXCEPT ![a] = NoAct], t)
  /\ UNCHANGED <<newTaskMsgs, updates, cancelled, stopResp, clicks>>

\* handleStopTask, lines 297-305: PENDING is written whatever the pointer
\* was, and success is returned
PendingWritten(t) ==
  /\ store' = updateTask(store, t, [status |-> PENDING])
  /\ stopResp' = "success"

\* handleStopTask (lines 270-313) up to its first await
StopTask(t) ==
  /\ HasTask(store, t)
  /\ clicks.stop < MaxStops
  /\ clicks' = [clicks EXCEPT !.stop = @ + 1]
  /\ IF currentTask # None /\ currentTask = t
     THEN /\ HasFree
          /\ acts' = Alloc(acts, [pc |-> "stopSend", task |-> t, origin |-> "none", idx |-> 0])
          /\ UNCHANGED <<store, stopResp>>
     ELSE /\ PendingWritten(t)
          /\ UNCHANGED acts
  /\ UNCHANGED <<currentTask, newTaskMsgs, updates, ctVars, cancelled, failures, session, send, parse, exec, wr, probe>>

\* handleStopTask once STOP_TASK has been answered or given up.  received:
\* content.ts handleStopTask ran (interval cleared, adapter stopped and
\* dropped).  Then currentTask = null and the write of PENDING.
StopAnswered(a, received) ==
  /\ acts[a].pc = "stopSend"
  /\ IF received
     THEN ctTimer' = None /\ ctAdapter' = FALSE
     ELSE UNCHANGED <<ctTimer, ctAdapter>>
  /\ currentTask' = None
  /\ PendingWritten(acts[a].task)
  /\ acts' = [acts EXCEPT ![a] = NoAct]
  /\ UNCHANGED <<newTaskMsgs, updates, ctTask, ctStep, ctWatchdog, ctx, cancelled, clicks, failures, session, send, parse, exec, wr, probe>>

NextRetry ==
  \/ \E n \in 1..MaxSteps : AddTask(n)
  \/ NewTaskAdded
  \/ \E a \in DOMAIN acts : NextTaskFound(a)
  \/ \E t \in 1..MaxTasks : StartTask(t)
  \/ \E a \in DOMAIN acts, outcome \in {"ok", "noTab", "fail"} : ExecuteAnswered(a, outcome)
  \/ \E a \in DOMAIN acts : RetryTimerFires(a)
  \/ \E status \in {RUNNING, COMPLETED, FAILED} : StatusInterval(status)
  \/ TaskStatusUpdate
  \/ \E a \in DOMAIN acts, outcome \in {"ok", "noTab", "fail"} : NextStepAnswered(a, outcome)
  \/ \E t \in 1..MaxTasks : StopTask(t)
  \/ \E a \in DOMAIN acts, received \in BOOLEAN : StopAnswered(a, received)

SpecRetry == Init /\ [][NextRetry]_vars

\* ======================================================================
\* The adapters' completion detection: GeminiAdapter
\* (src/src/adapters/gemini-adapter.ts), ChatGPTAdapter
\* (src/unnamed/part_006, "chatgpt"; src/src/adapters/chatgpt-adapter.ts,
\* "chatgpt.ts") and OiioiiAdapter (src/src/adapters/oiioii-adapter.ts).
\* For the ChatGPT adapters page.button says that an enabled send button is
\* on the page, page.len = 0 that no response is.  A session runs from startMonitoring to the
\* first terminal status checkStatus returns.
\* ======================================================================

\* submitContent has clicked send and calls startMonitoring.  Gemini resets
\* its flags, installs the MutationObserver when the messages container is
\* on the page (container) and then arms the 5 s fallback timer; ChatGPT
\* resets its two counters on an adapter whose hasSeenBusyState is false
\* (a new adapter, or one that cleanup() has reset); Oiioii resets
\* hasSeenBusyState and installs an observer that only logs (it has no
\* counters and no timers: the fields stay at their initial values).
StartSession(adapter, container) ==
  /\ ~session.active
  /\ session' =
       IF adapter = "gemini"
       THEN [session EXCEPT !.adapter = "gemini", !.active = TRUE,
                            !.lastResponseLength = 0, !.stableCheckCount = 0,
                            !.hasSeenBusyState = FALSE, !.observerConfirmedIdle = FALSE,
                            !.observer = container,
                            !.completionCheckTimer = FALSE,
                            !.fallbackTimer = (container \/ session.fallbackTimer),
                            !.reported = "none", !.seenBusy = FALSE]
       ELSE [session EXCEPT !.adapter = adapter, !.active = TRUE,
                            !.lastResponseLength = 0, !.stableCheckCount = 0,
                            !.hasSeenBusyState = FALSE, !.observerConfirmedIdle = FALSE,
                            !.observer = (adapter \in {"oiioii", "chatgpt.ts"} /\ container),
                            !.completionCheckTimer = FALSE,
                            !.reported = "none", !.seenBusy = FALSE]
  /\ UNCHANGED queueVars

\* the page changes under the adapter; Gemini's connected MutationObserver
\* restarts the 3 s completionCheckTimer
PageMutates(page) ==
  /\ session.adapter # "none"
  /\ page # session.page
  /\ session' = [session EXCEPT !.page = page,
                                !.completionCheckTimer =
                                   (@ \/ (session.observer /\ session.adapter = "gemini"))]
  /\ UNCHANGED queueVars

\* GeminiAdapter.checkCompletionAfterStable with 3 s gone since the last
\* mutation: is the page judged idle
observerSeesIdle(page) ==
  /\ ~page.stop
  /\ page.button
  /\ ~page.loading

\* GeminiAdapter.checkCompletionAfterStable
checkCompletionAfterStable(ss) ==
  IF observerSeesIdle(ss.page) THEN [ss EXCEPT !.observerConfirmedIdle = TRUE] ELSE ss

\* the completionCheckTimer fires, 3 s after the last mutation
CompletionCheckTimerFires ==
  /\ session.completionCheckTimer
  /\ session' = checkCompletionAfterStable([session EXCEPT !.completionCheckTimer = FALSE])
  /\ UNCHANGED queueVars

\* the 5 s fallback timer of startMonitoring fires; it is never cleared.
\* quiet: no mutation in the last 4 s, which is not so while the
\* completionCheckTimer is pending
FallbackTimerFires(quiet) ==
  /\ session.fallbackTimer
  /\ session.completionCheckTimer => ~quiet
  /\ session' = IF quiet
                THEN checkCompletionAfterStable([session EXCEPT !.fallbackTimer = FALSE])
                ELSE [session EXCEPT !.fallbackTimer = FALSE]
  /\ UNCHANGED queueVars

\* GeminiAdapter.stopMonitoring
GeminiStopMonitoring(ss) ==
  [ss EXCEPT !.observer = FALSE, !.completionCheckTimer = FALSE, !.hasSeenBusyState = FALSE]

\* GeminiAdapter.checkStatus: the session it leaves, with the status it
\* returns in reported
GeminiCheckStatus(ss) ==
  IF ss.observerConfirmedIdle
  THEN [GeminiStopMonitoring(ss) EXCEPT !.reported = COMPLETED]
  ELSE IF ss.page.stop
  THEN [ss EXCEPT !.hasSeenBusyState = TRUE, !.seenBusy = TRUE,
                  !.stableCheckCount = 0, !.observerConfirmedIdle = FALSE,
                  !.reported = RUNNING]
  ELSE IF ss.hasSeenBusyState
  THEN [GeminiStopMonitoring(ss) EXCEPT !.reported = COMPLETED]
  ELSE [ss EXCEPT !.reported = RUNNING]

\* ChatGPTAdapter.stopMonitoring
ChatGPTStopMonitoring(ss) == [ss EXCEPT !.observer = FALSE]

\* a stability test that keeps its count when the length changes
ChatGPTTextStable_keepCount(ss) ==
  IF ss.page.len = 0
  THEN [ss EXCEPT !.reported = RUNNING]
  ELSE IF ss.stableCheckCount + 1 >= StableThreshold
  THEN [ChatGPTStopMonitoring(ss) EXCEPT !.stableCheckCount = @ + 1,
                                          !.lastResponseLength = ss.page.len,
                                          !.reported = COMPLETED]
  ELSE [ss EXCEPT !.stableCheckCount = @ + 1, !.lastResponseLength = ss.page.len,
                  !.reported = RUNNING]

\* ChatGPTAdapter.checkStatus, from the text-stability fallback on (the
\* same in both files)
ChatGPTTextStable(ss) ==
  IF ss.page.len = 0
  THEN [ss EXCEPT !.reported = RUNNING]
  ELSE IF ss.page.len = ss.lastResponseLength
  THEN IF ss.stableCheckCount + 1 >= StableThreshold
       THEN [ChatGPTStopMonitoring(ss) EXCEPT !.stableCheckCount = @ + 1,
                                               !.reported = COMPLETED]
       ELSE [ss EXCEPT !.stableCheckCount = @ + 1, !.reported = RUNNING]
  ELSE [ss EXCEPT !.stableCheckCount = 0, !.lastResponseLength = ss.page.len,
                  !.reported = RUNNING]

\* ChatGPTAdapter.checkStatus of src/unnamed/part_006
ChatGPTCheckStatus(ss) ==
  IF ss.page.alert
  THEN [ChatGPTStopMonitoring(ss) EXCEPT !.reported = FAILED]
  ELSE IF ss.page.stop
  THEN [ss EXCEPT !.hasSeenBusyState = TRUE, !.seenBusy = TRUE,
                  !.stableCheckCount = 0, !.reported = RUNNING]
  ELSE IF ss.hasSeenBusyState
  THEN [ChatGPTStopMonitoring(ss) EXCEPT !.hasSeenBusyState = FALSE, !.reported = COMPLETED]
  ELSE IF ss.page.loading
  THEN [ss EXCEPT !.hasSeenBusyState = TRUE, !.seenBusy = TRUE, !.reported = RUNNING]
  ELSE ChatGPTTextStable(ss)

\* a checkStatus that takes the send button for the end only after it has
\* seen the stop button
ChatGPTAdapterCheckStatus_afterBusy(ss) == ChatGPTCheckStatus(ss)

\* ChatGPTAdapter.checkStatus of src/src/adapters/chatgpt-adapter.ts: the
\* alert, the stop button, the enabled send button, the loading indicator,
\* then the stability of the response's length
ChatGPTAdapterCheckStatus(ss) ==
  IF ss.page.alert
  THEN [ChatGPTStopMonitoring(ss) EXCEPT !.reported = FAILED]
  ELSE IF ss.page.stop
  THEN [ss EXCEPT !.stableCheckCount = 0, !.reported = RUNNING]
  ELSE IF ss.page.button
  THEN [ChatGPTStopMonitoring(ss) EXCEPT !.reported = COMPLETED]
  ELSE IF ss.page.loading
  THEN [ss EXCEPT !.reported = RUNNING]
  ELSE ChatGPTTextStable(ss)

\* OiioiiAdapter.stopMonitoring
OiioiiStopMonitoring(ss) == [ss EXCEPT !.observer = FALSE, !.hasSeenBusyState = FALSE]

\* OiioiiAdapter.checkStatus; detectPageBusyState looks for the pause layout
\* or the pause button, the page's stop affordance
OiioiiCheckStatus(ss) ==
  IF ss.page.stop
  THEN [ss EXCEPT !.hasSeenBusyState = TRUE, !.seenBusy = TRUE, !.reported = RUNNING]
  ELSE IF ss.hasSeenBusyState
  THEN [OiioiiStopMonitoring(ss) EXCEPT !.reported = COMPLETED]
  ELSE [ss EXCEPT !.reported = RUNNING]

\* one monitoring tick of the content script: checkStatus of the current
\* adapter; a terminal status ends the session
CheckStatusTick ==
  /\ session.active
  /\ LET after == CASE session.adapter = "gemini" -> GeminiCheckStatus(session)
                    [] session.adapter = "chatgpt" -> ChatGPTCheckStatus(session)
                    [] session.adapter = "chatgpt.ts" -> ChatGPTAdapterCheckStatus(session)
                    [] session.adapter = "oiioii" -> OiioiiCheckStatus(session)
     IN session' = [after EXCEPT !.active = after.reported \notin {COMPLETED, FAILED}]
  /\ UNCHANGED queueVars

NextSession ==
  \/ \E adapter \in {"gemini", "chatgpt", "chatgpt.ts", "oiioii"}, container \in BOOLEAN : StartSession(adapter, container)
  \/ \E page \in Pages : PageMutates(page)
  \/ CompletionCheckTimerFires
  \/ \E quiet \in BOOLEAN : FallbackTimerFires(quiet)
  \/ CheckStatusTick

SpecSession == Init /\ [][NextSession]_vars

\* ======================================================================
\* Claims checked under Spec
\* ======================================================================

\* C1: at every instant at most one Task in the store has status Running.
C1_AtMostOneRunning == Cardinality(RunningTasks(store)) <= 1

\* A step in which handleStopTask(t) writes and returns
StopCompletes(t) ==
  \/ HandleStopTask(t) /\ ~(currentTask # None /\ currentTask = t)
  \/ \E a \in DOMAIN acts, received \in BOOLEAN : acts[a].task = t /\ StopSent(a, received)

C3_StopNeverFailed ==
  [][\A t \in DOMAIN store :
       (t \in cancelled /\ store[t].status # FAILED) => store'[t].status # FAILED]_vars

\* A step in which the run of task t fails: executeTask's catch block, or a
\* FAILED status update from the content script
TaskFails(t) ==
  \/ \E a \in DOMAIN acts :
       /\ acts[a].task = t
       /\ (ExecuteProbed(a, FALSE) \/ SubmitAnswered(a, FALSE))
  \/ /\ updates # <<>>
     /\ Head(updates) = [task |-> t, status |-> FAILED]
     /\ HandleTaskStatusUpdate

\* C8: when a task fails (this coordinator retries nothing), it is left
\* Failed, the pointer does not stay on it, and with the pointer free and a
\* Pending task in the store startNextPendingTask is entered.
C8_FailureContinuesQueue ==
  [][\A t \in 1..MaxTasks :
       TaskFails(t) =>
         /\ store'[t].status = FAILED
         /\ currentTask' # t
         /\ (currentTask' = None /\ FirstPending(store') # None)
              => \E b \in DOMAIN acts : acts[b].pc = "none" /\ acts'[b].pc = "find"]_vars

\* A step that handles the Completed update of the task the pointer is on
CompletedOfActive ==
  /\ updates # <<>>
  /\ Head(updates).status = COMPLETED
  /\ Head(updates).task = currentTask
  /\ HandleTaskStatusUpdate

\* C9: when the active task reaches Completed the pointer is cleared and
\* startNextPendingTask is entered; its read of the store hands the earliest
\* Pending task, if any, to executeTask.
C9_CompletedSchedulesNext ==
  [][/\ CompletedOfActive =>
          /\ currentTask' = None
          /\ \E b \in DOMAIN acts : acts[b].pc = "none" /\ acts'[b].pc = "find"
     /\ \A a \in DOMAIN acts : StartNextFound(a) =>
          \A p \in DOMAIN store :
            (store[p].status = PENDING /\ \A j \in 1..(p - 1) : store[j].status # PENDING)
              => acts'[a].pc = "probe" /\ acts'[a].task = p]_vars

\* C9 witness: the first task is Completed, and the second one, never started
\* by hand, has been handed to executeTask by the queue and is Running.
C9_Witness ==
  /\ Len(store) = 2
  /\ store[1].status = COMPLETED
  /\ store[2].status = RUNNING
  /\ currentTask = 2
  /\ clicks.start = 0

\* C10: an executeTask that startNextPendingTask called sets the pointer and
\* marks its task Running only while no active task id is set.
C10_SingleFlight ==
  [][\A a \in DOMAIN acts :
       (acts[a].origin = "queue" /\ ExecuteProbed(a, TRUE)) => currentTask = None]_vars

\* ======================================================================
\* Claims checked under SpecRetry
\* ======================================================================

\* A step in which handleTaskFailure arms its 5 s retry timer
RetryScheduled ==
  \E a \in DOMAIN acts : acts[a].pc # "retryDelay" /\ acts'[a].pc = "retryDelay"

\* A step in which executeNextTask passes its guard and goes to the store
QueueEntered ==
  \E b \in DOMAIN acts : acts[b].pc # "find" /\ acts'[b].pc = "find"

C6_RetryRuns ==
  [][/\ \A t \in DOMAIN store :
          (failures'[t] # failures[t] /\ store[t].retryCount < store[t].maxRetries) =>
             store'[t].status = PENDING /\ RetryScheduled
     /\ \A a \in DOMAIN acts :
          (/\ RetryTimerFires(a)
           /\ currentTask \in {None, acts[a].task}
           /\ FirstPending(store) = acts[a].task) => QueueEntered]_vars

C4_CompletedOnlyAfterBusy == session.reported = COMPLETED => session.seenBusy

\* ----------------------------------------------------------------------
\* C11: when startNextPendingTask has read the queue, the task it hands to
\* executeTask is Pending and no task created before it is Pending, whatever
\* was started or stopped before; when no task is Pending it starts nothing
\* and changes neither the store nor the pointer.
C11_FifoChoice ==
  [][\A a \in DOMAIN acts :
       (acts[a].pc = "find" /\ acts'[a].pc # "find") =>
         IF \E i \in DOMAIN store : store[i].status = PENDING
         THEN /\ acts'[a].pc = "probe"
              /\ store[acts'[a].task].status = PENDING
              /\ \A j \in 1..(acts'[a].task - 1) : store[j].status # PENDING
         ELSE /\ acts'[a] = NoAct
              /\ store' = store
              /\ currentTask' = currentTask]_vars

\* the queue has just chosen the second task: the first, created earlier,
\* is no longer Pending
C11_Witness ==
  \E a \in DOMAIN acts :
    /\ acts[a].pc = "probe" /\ acts[a].origin = "queue" /\ acts[a].task = 2
    /\ store[1].status # PENDING
    /\ store[2].status = PENDING
\* ----------------------------------------------------------------------
\* C12: a task's persisted status changes only along the state machine:
\* Pending to Running, Running to Completed, Running to Failed, and any
\* state to Pending by a stop.  Pending to Failed is admitted for the run
\* that could not reach the page, which never marks the task Running.
\* There is no retry policy in this service worker.
StopStep(t) ==
  \/ clicks'.stop # clicks.stop /\ currentTask # t
  \/ \E a \in DOMAIN acts :
       acts[a].pc = "stopSend" /\ acts[a].task = t /\ acts'[a] = NoAct

ProbeFailedStep(t) ==
  \E a \in DOMAIN acts :
    acts[a].pc = "probe" /\ acts[a].task = t /\ acts'[a] = NoAct

C12_StatusTransitions ==
  [][\A t \in DOMAIN store :
       store'[t].status # store[t].status =>
         \/ <<store[t].status, store'[t].status>> \in
              {<<PENDING, RUNNING>>, <<RUNNING, COMPLETED>>, <<RUNNING, FAILED>>}
         \/ store[t].status = PENDING /\ store'[t].status = FAILED /\ ProbeFailedStep(t)
         \/ store'[t].status = PENDING /\ StopStep(t)]_vars
\* ======================================================================
\* The content script whose monitoring loop is an interval
\* (src/unnamed/part_003), under the service worker of part_004
\* ======================================================================

\* cleanupTaskState() of part_003: four assignments, no timer is touched
cleanupTaskState003 ==
  /\ ctAdapter' = FALSE
  /\ ctTask' = None
  /\ ctStep' = 0

\* handleSubmitTask after submitTask(): on success startStatusMonitoring
\* (the interval is set) and {success: true}; otherwise cleanupTaskState and
\* {success: false}, which executeTask turns into its catch block
SubmitAnswered003(a, success) ==
  /\ acts[a].pc = "awaitSubmit"
  /\ acts' = [acts EXCEPT ![a] = NoAct]
  /\ IF success
     THEN /\ ctTimer' = acts[a].task
          /\ UNCHANGED <<ctTask, ctAdapter, ctStep, store, currentTask>>
     ELSE /\ cleanupTaskState003
          /\ ExecuteCatch(acts[a].task)
          /\ UNCHANGED ctTimer
  /\ UNCHANGED <<newTaskMsgs, updates, ctWatchdog, ctx, histVars, session, send, parse, exec, wr, probe>>

\* handleStopTask of the service worker once sendMessageToContentScript has
\* ended; received: the content script ran its handleStopTask (the interval
\* is cleared, then stopCurrentTask and cleanupTaskState when an adapter is
\* there)
StopSent003(a, received) ==
  /\ acts[a].pc = "stopSend"
  /\ IF received
     THEN /\ ctTimer' = None
          /\ IF ctAdapter THEN cleanupTaskState003
             ELSE UNCHANGED <<ctTask, ctAdapter, ctStep>>
     ELSE UNCHANGED <<ctTask, ctAdapter, ctStep, ctTimer>>
  /\ currentTask' = None
  /\ StopWritten(acts[a].task, TRUE)
  /\ acts' = [acts EXCEPT ![a] = NoAct]
  /\ UNCHANGED <<newTaskMsgs, updates, ctWatchdog, ctx, clicks, failures, session, send, parse, exec, wr, probe>>

\* The callback of the status interval, up to its first real await.  status
\* is what currentAdapter.checkStatus() returns on this tick.  On COMPLETED
\* of a multi-step task the interval is cleared and handleStepComplete runs:
\* STEP_PROGRESS for the current step, then either the move to the next step
\* (parked on the 2 s settle delay) or the final COMPLETED and the cleanup.
IntervalTick(status) ==
  /\ ctTimer # None
  /\ LET taskId == ctTimer IN
     IF ~ctAdapter
     THEN /\ ctTimer' = None
          /\ UNCHANGED <<ctTask, ctAdapter, ctStep, ctx, updates>>
     ELSE
       CASE status = COMPLETED /\ isMultiStepTask /\ hasMoreSteps ->
              /\ \E k \in DOMAIN ctx : ctx[k].pc = "none"
              /\ Len(updates) < MaxUpdates
              /\ SendStepProgress(taskId, ctStep)
              /\ ctStep' = ctStep + 1
              /\ ctx' = Alloc(ctx, [pc |-> "settle", task |-> taskId])
              /\ ctTimer' = None
              /\ UNCHANGED <<ctTask, ctAdapter>>
         [] status = COMPLETED /\ isMultiStepTask /\ ~hasMoreSteps ->
              /\ Len(updates) < MaxUpdates
              /\ updates' = updates \o
                   <<[task |-> taskId, status |-> STEP_PROGRESS, step |-> ctStep],
                     [task |-> taskId, status |-> COMPLETED]>>
              /\ ctTimer' = None
              /\ cleanupTaskState003
              /\ UNCHANGED ctx
         [] status \in {COMPLETED, FAILED} /\ ~(status = COMPLETED /\ isMultiStepTask) ->
              /\ Len(updates) < MaxUpdates
              /\ SendStatus(taskId, status)
              /\ ctTimer' = None
              /\ cleanupTaskState003
              /\ UNCHANGED ctx
         [] OTHER ->
              /\ status = RUNNING
              /\ UNCHANGED <<ctTask, ctAdapter, ctStep, ctTimer, ctx, updates>>
  /\ UNCHANGED <<store, coordVars, histVars, ctWatchdog, session, send, parse, exec, wr, probe>>

\* handleStepComplete after the settle delay: currentAdapter.cleanup(), which
\* is outside the try block, then the new adapter and the start of
\* submitTask().  With the adapter gone (a stop ran during the delay) the
\* call throws out of the interval callback and nothing is reported.
StepCompleteSettled(k) ==
  /\ ctx[k].pc = "settle"
  /\ ctx' = [ctx EXCEPT ![k] = IF ctAdapter THEN [@ EXCEPT !.pc = "nextSubmit"] ELSE NoTick]
  /\ UNCHANGED <<store, coordVars, histVars, updates, ctTask, ctAdapter, ctStep,
                 ctTimer, ctWatchdog, session, send, parse, exec, wr, probe>>

\* handleStepComplete once submitTask() of the next step has ended.  ok: the
\* handler returns, and the interval it was called from stays cleared.
\* Otherwise (false or a throw) FAILED is reported and the state cleaned.
StepCompleteSubmitted(k, ok) ==
  /\ ctx[k].pc = "nextSubmit"
  /\ ctx' = [ctx EXCEPT ![k] = NoTick]
  /\ IF ok
     THEN UNCHANGED <<ctTask, ctAdapter, ctStep, updates>>
     ELSE /\ Len(updates) < MaxUpdates
          /\ SendStatus(ctx[k].task, FAILED)
          /\ cleanupTaskState003
  /\ UNCHANGED <<store, coordVars, histVars, ctTimer, ctWatchdog, session, send, parse, exec, wr, probe>>

NextSteps ==
  \/ \E n \in 1..MaxSteps : AddTask(n)
  \/ HandleNewTaskAdded
  \/ \E a \in DOMAIN acts : StartNextFound(a)
  \/ \E t \in 1..MaxTasks : HandleStartTask(t)
  \/ \E a \in DOMAIN acts, reachable \in BOOLEAN : ExecuteProbed(a, reachable)
  \/ \E a \in DOMAIN acts, success \in BOOLEAN : SubmitAnswered003(a, success)
  \/ \E t \in 1..MaxTasks : HandleStopTask(t)
  \/ \E a \in DOMAIN acts, received \in BOOLEAN : StopSent003(a, received)
  \/ HandleTaskStatusUpdate
  \/ HandleStepProgress
  \/ \E status \in {RUNNING, COMPLETED, FAILED} : IntervalTick(status)
  \/ \E k \in DOMAIN ctx : StepCompleteSettled(k)
  \/ \E k \in DOMAIN ctx, ok \in BOOLEAN : StepCompleteSubmitted(k, ok)

SpecSteps == Init /\ [][NextSteps]_vars

\* ----------------------------------------------------------------------
\* C13: for every task with steps, 0 <= currentStepIndex < len(steps) in
\* the persisted record whenever its status is Running, Completed or Failed,
\* also after the last step has completed.
C13_StepIndexInRange ==
  \A t \in DOMAIN store :
    (store[t].steps # <<>> /\ store[t].status \in {RUNNING, COMPLETED, FAILED}) =>
      (0 <= store[t].idx /\ store[t].idx < Len(store[t].steps))
\* ----------------------------------------------------------------------
\* A step in which the pipeline of multi-step task t fails: the submission
\* of a following step returns false or throws (executeNextStep), or the
\* tick judges the step under way Failed.  (A submission that outlasts the
\* 30 s race is not a failure report; it is the subject of C29.)
StepFails(t) ==
  /\ Len(store[t].steps) > 1
  /\ updates' = Append(updates, [task |-> t, status |-> FAILED])
  /\ \/ \E k \in DOMAIN ctx :
          ctx[k].pc \in {"settle", "nextSubmit"} /\ ctx[k].task = t /\ ctx'[k] = NoTick
     \/ ctTimer = t /\ ctAdapter /\ ctx' = ctx

\* the service worker takes a FAILED report for task t off the port
FailedReportHandled(t) ==
  /\ updates # <<>>
  /\ Head(updates) = [task |-> t, status |-> FAILED]
  /\ updates' = Tail(updates)

PipelineSteps == 3

InitPipeline ==
  /\ session = NoSession
  /\ send = NoSend
  /\ parse = NoParse
  /\ exec = NoExec
  /\ wr = NoWr
  /\ probe = NoProbe
  /\ store = <<NewTask(PipelineSteps, DefaultMaxRetries)>>
  /\ currentTask = None
  /\ acts = [a \in 1..MaxActs |-> NoAct]
  /\ newTaskMsgs = 1
  /\ updates = <<>>
  /\ ctTask = None
  /\ ctAdapter = FALSE
  /\ ctStep = 0
  /\ ctTimer = None
  /\ ctWatchdog = None
  /\ ctx = [k \in 1..MaxTicks |-> NoTick]
  /\ cancelled = {}
  /\ stopResp = "none"
  /\ clicks = [start |-> 0, stop |-> 0]
  /\ failures = [t \in 1..MaxTasks |-> 0]

SpecPipeline == InitPipeline /\ [][Next]_vars

\* ----------------------------------------------------------------------
\* C15: when the submission of the second step (index 1) of a three-step
\* task has failed, the persisted task ends Failed with currentStepIndex 1,
\* its second step Failed and its third step still Pending.  Checked at the
\* step in which the service worker handles the FAILED report of a
\* three-step task whose currentStepIndex is 1.
C15_SecondStepFailure ==
  [][\A t \in DOMAIN store :
       (/\ Len(store[t].steps) = PipelineSteps
        /\ store[t].idx = 1
        /\ FailedReportHandled(t)) =>
         /\ store'[t].status = FAILED
         /\ store'[t].idx = 1
         /\ store'[t].steps[2] = FAILED
         /\ store'[t].steps[3] = PENDING]_vars
\* ----------------------------------------------------------------------
\* C16: when a following step of a multi-step task has been submitted
\* successfully (the suspended tick ends with the adapter in place and no
\* failure report), the step is monitored to its own verdict: a status check
\* is armed for the task.
C16_FollowingStepMonitored ==
  [][\A k \in DOMAIN ctx :
       (/\ ctx[k].pc = "nextSubmit" /\ ctx'[k] = NoTick
        /\ updates' = updates /\ ctAdapter /\ ctAdapter') =>
         ctTimer' = ctx[k].task]_vars
\* ----------------------------------------------------------------------
\* C17: on every monitoring tick at which an error indicator is on the
\* page, the session reports Failed on that tick, whatever the busy
\* indicators and hasSeenBusyState are.
C17_ErrorReportsFailed ==
  [][(CheckStatusTick /\ session.page.alert) => session'.reported = FAILED]_vars
\* ----------------------------------------------------------------------
\* The page answered the probe of a run of task t (the PING, or the PING
\* after one injection), and executeTask goes on to SUBMIT_TASK
ProbeAnsweredStep(t) ==
  \E a \in DOMAIN acts :
    acts[a].pc = "probe" /\ acts[a].task = t /\ acts'[a].pc = "awaitSubmit"

\* C18: executeTask marks a task Running and points currentTask at it only
\* in the step in which the page has answered the probe; a run whose probe
\* stays unanswered marks the task Failed with the connectivity error and
\* writes no Running.
C18_RunningOnlyAfterProbe ==
  [][\A t \in DOMAIN store :
       /\ (store[t].status # RUNNING /\ store'[t].status = RUNNING) => ProbeAnsweredStep(t)
       /\ (currentTask # t /\ currentTask' = t) => ProbeAnsweredStep(t)
       /\ ProbeFailedStep(t) => (store'[t].status = FAILED /\ store'[t].err)]_vars
\* ======================================================================
\* sendMessageToContentScript (src/unnamed/part_004:475-512 and
\* src/src/background.ts:560-595): one call at a time, cut at its awaits
\* ======================================================================

\* the default of the retries parameter, which no caller overrides
Retries004 == 3
RetriesLegacy == 5
SendRetries == {Retries004, RetriesLegacy}

\* the site types that have URL patterns, and a value that has none
SiteTypes == {"gemini", "chatgpt", "oiioii"}
SendMessages == {"SUBMIT_TASK", "STOP_TASK", "CHECK_STATUS"}

\* a loop that never takes its last failure for the end
Exhausted_never(attempt, retries) == FALSE

\* the test of the catch block: attempt === retries
Exhausted(attempt, retries) == attempt = retries

sendFrame == <<store, coordVars, updates, ctVars, histVars, session, parse, exec, wr, probe>>

\* the call up to its first timer: the URL patterns, chrome.tabs.query, the
\* loop entry.  tabFound: a tab of the site is open.
SendCall(siteType, message, retries, tabFound) ==
  /\ send.pc = "idle"
  /\ send' =
       LET call == [NoSend EXCEPT !.siteType = siteType, !.message = message,
                                  !.retries = retries]
       IN IF siteType \notin SiteTypes
          THEN [call EXCEPT !.pc = "thrown", !.error = "unsupported"]
          ELSE IF ~tabFound
          THEN [call EXCEPT !.pc = "thrown", !.error = "noTab"]
          ELSE IF 1 <= retries
          THEN [call EXCEPT !.pc = "wait", !.attempt = 1]
          ELSE [call EXCEPT !.pc = "returned"]
  /\ UNCHANGED sendFrame

\* the wait before an attempt is over: chrome.tabs.sendMessage is called
SendWaited ==
  /\ send.pc = "wait"
  /\ send' = [send EXCEPT !.pc = "sending", !.attempts = @ + 1]
  /\ UNCHANGED sendFrame

\* chrome.tabs.sendMessage has ended.  delivered: it resolved, and the
\* response is returned; otherwise the catch block runs, and then the loop
\* header
SendAttempted(delivered) ==
  /\ send.pc = "sending"
  /\ send' =
       IF delivered
       THEN [send EXCEPT !.pc = "returned", !.delivered = TRUE]
       ELSE IF Exhausted(send.attempt, send.retries)
       THEN [send EXCEPT !.pc = "thrown", !.error = "exhausted", !.named = send.retries]
       ELSE IF send.attempt + 1 <= send.retries
       THEN [send EXCEPT !.pc = "wait", !.attempt = @ + 1]
       ELSE [send EXCEPT !.pc = "returned"]
  /\ UNCHANGED sendFrame

\* the caller has taken the response or the error
SendDone ==
  /\ send.pc \in {"returned", "thrown"}
  /\ send' = NoSend
  /\ UNCHANGED sendFrame

NextSend ==
  \/ \E siteType \in SiteTypes \cup {"other"}, message \in SendMessages,
        retries \in SendRetries, tabFound \in BOOLEAN :
       SendCall(siteType, message, retries, tabFound)
  \/ SendWaited
  \/ \E delivered \in BOOLEAN : SendAttempted(delivered)
  \/ SendDone

SpecSend == Init /\ [][NextSend]_vars

\* ----------------------------------------------------------------------
\* C19: sendMessageToContentScript calls chrome.tabs.sendMessage at most
\* `retries` times; it returns normally only when an attempt was delivered,
\* and when every attempt has failed it throws the error that names the
\* number of attempts.
C19_SendBounded ==
  /\ send.attempts <= send.retries
  /\ send.pc = "returned" => send.delivered
  /\ (send.pc = "thrown" /\ send.error = "exhausted") =>
       /\ ~send.delivered
       /\ send.attempts = send.retries
       /\ send.named = send.attempts

\* all three attempts of a call have failed and the error is thrown
C19_Witness ==
  /\ send.pc = "thrown" /\ send.error = "exhausted"
  /\ send.retries = Retries004 /\ send.attempts = Retries004
C21_StopAbortsActive ==
  [][/\ \A t \in DOMAIN store :
          (clicks'.stop # clicks.stop /\ HandleStopTask(t)
           /\ currentTask = t /\ store[t].status = RUNNING) =>
            \E a \in DOMAIN acts :
              acts[a].pc = "none" /\ acts'[a].pc = "stopSend" /\ acts'[a].task = t
     /\ \A a \in DOMAIN acts :
          (acts[a].pc = "stopSend" /\ acts'[a] = NoAct) =>
            /\ currentTask' = None
            /\ StopSent(a, TRUE) => (~ctAdapter' /\ ctTask' = None /\ ctTimer' = None)]_vars

\* the page was monitoring the active task when the stop reached it: the
\* task is Pending, nothing is active, the adapter and both timers are gone
C21_Witness ==
  \E t \in cancelled :
    /\ stopResp = "success" /\ clicks.stop = 1 /\ clicks.start = 0
    /\ store[t].status = PENDING /\ currentTask = None
    /\ ~ctAdapter /\ ctTask = None /\ ctTimer = None /\ ctWatchdog = None
    /\ updates = <<>>
    /\ \A a \in DOMAIN acts : acts[a] = NoAct
\* ======================================================================
\* parseTaskSteps (src/src/utils/task-parser.ts:16-41).  A content is a
\* sequence of characters.
\* ======================================================================
MaxPieces == 6

\* STEP_SEPARATOR = '--------'
STEP_SEPARATOR == <<"-", "-", "-", "-", "-", "-", "-", "-">>

\* the fragments the contents are put together from
Pieces == {STEP_SEPARATOR, <<"-">>, <<"a">>, <<"b">>, <<" ">>}

RECURSIVE Flatten(_)
Flatten(ps) == IF ps = <<>> THEN <<>> ELSE Head(ps) \o Flatten(Tail(ps))

Contents == {Flatten(ps) : ps \in UNION {[1..n -> Pieces] : n \in 0..MaxPieces}}

\* the separator occurs in s at position i
SeparatorAt(s, i) ==
  /\ i + Len(STEP_SEPARATOR) - 1 <= Len(s)
  /\ SubSeq(s, i, i + Len(STEP_SEPARATOR) - 1) = STEP_SEPARATOR

\* content.includes(STEP_SEPARATOR)
includes(s) == \E i \in 1..Len(s) : SeparatorAt(s, i)

\* content.split(STEP_SEPARATOR): cut at the leftmost occurrence, go on after it
RECURSIVE split(_)
split(s) ==
  IF ~includes(s) THEN <<s>>
  ELSE LET i == CHOOSE x \in 1..Len(s) :
                  SeparatorAt(s, x) /\ \A y \in 1..(x - 1) : ~SeparatorAt(s, y)
       IN <<SubSeq(s, 1, i - 1)>> \o split(SubSeq(s, i + Len(STEP_SEPARATOR), Len(s)))

\* a trim that leaves the part as it is
trim_none(s) == s

\* part.trim(): white space is removed at both ends
RECURSIVE trim(_)
trim(s) ==
  IF s = <<>> THEN s
  ELSE IF Head(s) = " " THEN trim(Tail(s))
  ELSE IF s[Len(s)] = " " THEN trim(SubSeq(s, 1, Len(s) - 1))
  ELSE s

NonEmpty(part) == Len(part) > 0

\* parseTaskSteps(content)
parseTaskSteps(content) ==
  IF ~includes(content) THEN NoSteps
  ELSE LET parts == split(content)
           kept == SelectSeq([i \in 1..Len(parts) |-> trim(parts[i])], NonEmpty)
           steps == [i \in 1..Len(kept) |->
                       [index |-> i - 1, content |-> kept[i], status |-> PENDING]]
       IN IF Len(steps) < 2 THEN NoSteps ELSE [present |-> TRUE, steps |-> steps]

parseFrame == <<store, coordVars, updates, ctVars, histVars, session, send, exec, wr, probe>>

\* the user's content is parsed
Parse(content) ==
  /\ parse.pc = "idle"
  /\ parse' = [parse EXCEPT !.pc = "parsed", !.content = content,
                            !.first = parseTaskSteps(content)]
  /\ UNCHANGED parseFrame

\* a second parse that works on what the first one left of the content
ParseAgain_onRest ==
  /\ parse.pc = "parsed"
  /\ parse' = [parse EXCEPT !.pc = "twice",
                            !.second = parseTaskSteps(IF parse.first.present
                                                      THEN parse.first.steps[1].content
                                                      ELSE parse.content)]
  /\ UNCHANGED parseFrame

\* the same content is parsed a second time
ParseAgain ==
  /\ parse.pc = "parsed"
  /\ parse' = [parse EXCEPT !.pc = "twice", !.second = parseTaskSteps(parse.content)]
  /\ UNCHANGED parseFrame

\* the results are dropped
ParseDone ==
  /\ parse.pc = "twice"
  /\ parse' = NoParse
  /\ UNCHANGED parseFrame

NextParse ==
  \/ \E content \in Contents : Parse(content)
  \/ ParseAgain
  \/ ParseDone

SpecParse == Init /\ [][NextParse]_vars
\* ----------------------------------------------------------------------
\* What the split of a content must be, said without the algorithm: the
\* parts joined by the separator give the content back, no part holds a
\* separator, and a part with the separator after it holds none before its end
RECURSIVE Join(_)
Join(parts) ==
  IF Len(parts) = 1 THEN parts[1]
  ELSE parts[1] \o STEP_SEPARATOR \o Join(Tail(parts))

IsSplitOf(parts, c) ==
  /\ Len(parts) >= 1
  /\ Join(parts) = c
  /\ \A i \in 1..Len(parts) : ~includes(parts[i])
  /\ \A i \in 1..(Len(parts) - 1) :
       \A y \in 1..Len(parts[i]) : ~SeparatorAt(parts[i] \o STEP_SEPARATOR, y)

HasInk(part) == \E i \in 1..Len(part) : part[i] # " "
Blanks(n) == [i \in 1..n |-> " "]

\* content is part without the white space at its two ends
StripsTo(part, content) ==
  /\ content # <<>> /\ Head(content) # " " /\ content[Len(content)] # " "
  /\ \E a, b \in 0..Len(part) : part = Blanks(a) \o content \o Blanks(b)

\* C22: the content is split at the 8-character separator, every segment is
\* trimmed and the empty ones are dropped; the steps are there, indexed
\* 0..n-1 in the order of the content, exactly when at least two non-empty
\* segments remain; without a separator, or with the separator alone, there
\* are no steps.
C22_ParseSteps ==
  parse.pc # "idle" =>
    LET c == parse.content
        r == parse.first
        parts == split(c)
        inked == SelectSeq(parts, HasInk)
    IN /\ IsSplitOf(parts, c)
       /\ ~includes(c) => ~r.present
       /\ c = STEP_SEPARATOR => ~r.present
       /\ r.present <=> (includes(c) /\ Len(inked) >= 2)
       /\ ~r.present => r.steps = <<>>
       /\ r.present =>
            /\ Len(r.steps) = Len(inked)
            /\ \A k \in 1..Len(r.steps) :
                 /\ r.steps[k].index = k - 1
                 /\ r.steps[k].status = PENDING
                 /\ StripsTo(inked[k], r.steps[k].content)

\* a content of three steps, one of them written with white space around it
C22_Witness ==
  /\ parse.pc = "parsed"
  /\ parse.first.present /\ Len(parse.first.steps) = 3
  /\ \E i \in 1..Len(parse.content) : parse.content[i] = " "

getCurrentStepContent_step(task) == [kind |-> "step", index |-> task.idx]

\* BaseAdapter.getCurrentStepContent: the content of the current step when
\* the task has steps, the whole prompt otherwise
getCurrentStepContent(task) ==
  IF Len(task.steps) > 0
  THEN [kind |-> "step", index |-> task.idx]
  ELSE [kind |-> "prompt", index |-> 0]

execFrame == <<coordVars, updates, ctVars, histVars, session, send, parse, wr, probe>>

\* executeMultiStep, the head of one loop round (lines 103-106) and
\* executeStep up to submitTask() (lines 144-154): the store after them
BeginStep(s, t, i) ==
  updateStepStatus(updateTask(s, t, [idx |-> i]), t, i, RUNNING)

\* execute() up to the first submitTask(): RUNNING is written; with steps,
\* currentStepIndex 0 and the first step RUNNING as well
Execute(t) ==
  /\ exec.pc = "idle"
  /\ HasTask(store, t) /\ store[t].status = PENDING
  /\ store' = IF Len(store[t].steps) > 0
              THEN BeginStep(updateTask(store, t, [status |-> RUNNING, idx |-> 0]), t, 0)
              ELSE updateTask(store, t, [status |-> RUNNING])
  /\ exec' = [NoExec EXCEPT !.pc = "submit", !.task = t]
  /\ UNCHANGED execFrame

\* submitTask() has ended.  submitted: it returned true.  Otherwise the
\* single step throws into execute()'s catch block (FAILED and the error),
\* and a step of several is marked FAILED and then the task
ExecSubmitted(submitted) ==
  /\ exec.pc = "submit"
  /\ LET t == exec.task
         sent == [exec EXCEPT !.submissions = @ + 1,
                              !.content = getCurrentStepContent(store[t])]
     IN IF submitted
        THEN /\ exec' = [sent EXCEPT !.pc = "wait"]
             /\ UNCHANGED store
        ELSE /\ exec' = [sent EXCEPT !.pc = "done"]
             /\ store' = IF Len(store[t].steps) > 0
                         THEN updateTask(updateStepStatus(store, t, exec.i, FAILED),
                                         t, [status |-> FAILED])
                         ELSE updateTask(store, t, [status |-> FAILED, err |-> TRUE])
  /\ UNCHANGED execFrame

\* waitForCompletion: one checkStatus().  RUNNING arms the next poll and
\* changes nothing; COMPLETED ends the step, and the task when it was the
\* only or the last one; FAILED (or a throw) rejects
ExecPolled(status) ==
  /\ exec.pc = "wait"
  /\ LET t == exec.task
         multi == Len(store[t].steps) > 0
         last == exec.i >= Len(store[t].steps) - 1
     IN CASE status = RUNNING ->
               UNCHANGED <<store, exec, wr, probe>>
          [] status = COMPLETED /\ ~multi ->
               /\ store' = updateTask(store, t, [status |-> COMPLETED])
               /\ exec' = [exec EXCEPT !.pc = "done", !.verdicts = @ + 1]
          [] status = COMPLETED /\ multi /\ last ->
               /\ store' = updateTask(updateStepStatus(store, t, exec.i, COMPLETED),
                                      t, [status |-> COMPLETED])
               /\ exec' = [exec EXCEPT !.pc = "done", !.verdicts = @ + 1]
          [] status = COMPLETED /\ multi /\ ~last ->
               /\ store' = updateStepStatus(store, t, exec.i, COMPLETED)
               /\ exec' = [exec EXCEPT !.pc = "cleanup", !.verdicts = @ + 1]
          [] status = FAILED /\ ~multi ->
               /\ store' = updateTask(store, t, [status |-> FAILED, err |-> TRUE])
               /\ exec' = [exec EXCEPT !.pc = "done", !.verdicts = @ + 1]
          [] status = FAILED /\ multi ->
               /\ store' = updateTask(updateStepStatus(store, t, exec.i, FAILED),
                                      t, [status |-> FAILED])
               /\ exec' = [exec EXCEPT !.pc = "done", !.verdicts = @ + 1]
  /\ UNCHANGED execFrame

\* executeMultiStep after adapter.cleanup() between two steps.  cleaned: it
\* returned, and the next round begins; otherwise it threw into execute()'s
\* catch block
ExecCleaned(cleaned) ==
  /\ exec.pc = "cleanup"
  /\ IF cleaned
     THEN /\ store' = BeginStep(store, exec.task, exec.i + 1)
          /\ exec' = [exec EXCEPT !.pc = "submit", !.i = @ + 1]
     ELSE /\ store' = updateTask(store, exec.task, [status |-> FAILED, err |-> TRUE])
          /\ exec' = [exec EXCEPT !.pc = "done"]
  /\ UNCHANGED execFrame

\* execute() has returned; the executor is dropped
ExecReturned ==
  /\ exec.pc = "done"
  /\ exec' = NoExec
  /\ UNCHANGED <<store, execFrame>>

NextExecutor ==
  \/ \E n \in 1..MaxSteps : AddTask(n)
  \/ \E t \in 1..MaxTasks : Execute(t)
  \/ \E submitted \in BOOLEAN : ExecSubmitted(submitted)
  \/ \E status \in {RUNNING, COMPLETED, FAILED} : ExecPolled(status)
  \/ \E cleaned \in BOOLEAN : ExecCleaned(cleaned)
  \/ ExecReturned

SpecExecutor == Init /\ [][NextExecutor]_vars

\* ----------------------------------------------------------------------
\* C24: a task without steps is run as one step on the raw prompt: one
\* submitTask() on the prompt, one terminal answer of checkStatus() when the
\* submission went through (none when it did not), and at the end of
\* execute() the task is Completed or Failed.
C24_SingleStepTask ==
  (exec.task # None /\ store[exec.task].steps = <<>>) =>
    /\ exec.submissions <= 1 /\ exec.verdicts <= exec.submissions
    /\ exec.submissions = 1 => exec.content = [kind |-> "prompt", index |-> 0]
    /\ exec.pc = "wait" => (exec.submissions = 1 /\ exec.verdicts = 0)
    /\ exec.pc # "cleanup"
    /\ exec.pc = "done" =>
         /\ exec.submissions = 1
         /\ store[exec.task].status \in {COMPLETED, FAILED}
         /\ store[exec.task].status = COMPLETED => exec.verdicts = 1
         /\ store[exec.task].status = FAILED => store[exec.task].err

\* a task without steps was submitted once, judged once and is Completed
C24_Witness ==
  /\ exec.pc = "done" /\ store[exec.task].steps = <<>>
  /\ exec.submissions = 1 /\ exec.verdicts = 1
  /\ store[exec.task].status = COMPLETED
\* ----------------------------------------------------------------------
\* C25: on every monitoring tick at which the stop affordance (the busy
\* indicator) is on the page and no error indicator is, checkStatus reports
\* RUNNING, leaves hasSeenBusyState set and the stability counter at 0.
C25_BusyTickKeepsRunning ==
  [][(CheckStatusTick /\ session.page.stop /\ ~session.page.alert) =>
       /\ session'.reported = RUNNING
       /\ session'.hasSeenBusyState
       /\ session'.stableCheckCount = 0]_vars
\* ----------------------------------------------------------------------
\* C26: a monitoring tick reports Completed only when the stability counter
\* has reached the threshold, no mutation was notified in the last 3 s (a
\* pending completionCheckTimer means one was) and the stop affordance is
\* absent from the page at that tick.
C26_CompletedOnlyWhenStable ==
  [][(CheckStatusTick /\ session'.reported = COMPLETED) =>
       /\ session'.stableCheckCount >= StableThreshold
       /\ ~session.completionCheckTimer
       /\ ~session.page.stop]_vars
\* ----------------------------------------------------------------------
\* The content script's timers do fire: the watchdog interval every 4 s as
\* long as it is armed, and the 2 s settle timeout of executeNextStep
SpecWatchdog ==
  /\ Spec
  /\ WF_vars(Watchdog)
  /\ \A k \in 1..MaxTicks : WF_vars(NextStepSettled(k))

\* C27: whenever an adapter is alive with its watchdog armed and no
\* monitoring timeout is pending, a monitoring timeout is armed again (by
\* the watchdog at the latest) unless the session ends first.
C27_WatchdogRestarts ==
  (ctAdapter /\ ctWatchdog # None /\ ctTimer = None) ~> (ctTimer # None \/ ~ctAdapter)

\* the watchdog has restarted a loop that was dead while a tick hung in the
\* submission of the next step
C27_Witness ==
  /\ ctAdapter /\ ctWatchdog # None /\ ctTimer # None
  /\ \E k \in DOMAIN ctx : ctx[k].pc = "nextSubmit"
\* ----------------------------------------------------------------------
\* C28: the step that ends a session of the content script (it drops the
\* adapter) leaves neither the monitoring timeout nor the watchdog armed;
\* and while no session is alive no step of the content script arms one of
\* them or sends a report to the service worker.
C28_NothingAfterSessionEnd ==
  [][/\ (ctAdapter /\ ~ctAdapter') => (ctTimer' = None /\ ctWatchdog' = None)
     /\ (~ctAdapter /\ ~ctAdapter') =>
          /\ ctTimer' = None
          /\ ctWatchdog' \in {None, ctWatchdog}
          /\ Len(updates') <= Len(updates)]_vars
\* ----------------------------------------------------------------------
\* C29: when the submission of the next step loses the race against the
\* 30 s timeout, the tick stops waiting, the content script ends the session
\* and FAILED is reported for the task, the report on which the service
\* worker marks the task Failed and releases currentTask.
C29_SubmitTimeoutFailsTask ==
  [][\A k \in DOMAIN ctx :
       (ctx[k].pc = "nextSubmit" /\ NextStepSubmitted(k, "timeout")) =>
         /\ ctx'[k] = NoTick /\ ~ctAdapter' /\ ctTimer' = None
         /\ updates' = Append(updates, [task |-> ctx[k].task, status |-> FAILED])]_vars
\* ======================================================================
\* TaskStorage (src/src/storage/task-storage.ts) with its calls cut at
\* their awaits, under the service worker's handlers that write one task:
\* every call reads the whole list (getAllTasks), changes its copy and
\* writes the whole list back (saveTasks).  The store starts with the
\* three-step task of InitPipeline.
\* ======================================================================

\* the change a storage call makes to the list it has read
ApplyOp(tasks, op) ==
  CASE op.kind = "updateTask" -> updateTask(tasks, op.task, op.updates)
    [] op.kind = "updateStepStatus" -> updateStepStatus(tasks, op.task, op.step, op.status)

storageFrame == <<coordVars, updates, ctVars, histVars, session, send, parse, exec, probe>>

\* a handler enters its first storage call
BeginHandler(ops) ==
  /\ wr.started < MaxHandlers
  /\ \E w \in DOMAIN wr.procs :
       /\ wr.procs[w].pc = "idle"
       /\ \A v \in DOMAIN wr.procs : v < w => wr.procs[v].pc # "idle"
       /\ wr' = [wr EXCEPT !.procs[w] = [pc |-> "read", ops |-> ops, tasks |-> <<>>],
                           !.started = @ + 1]
  /\ UNCHANGED <<store, storageFrame>>

\* executeTask: updateTask(task.id, {status: RUNNING, ...})
BeginExecuteTask(t) ==
  /\ HasTask(store, t) /\ store[t].status = PENDING
  /\ BeginHandler(<<[kind |-> "updateTask", task |-> t, updates |-> [status |-> RUNNING]]>>)

\* handleStepProgress: updateStepStatus(taskId, stepIndex, COMPLETED), then
\* updateTask(taskId, {currentStepIndex: stepIndex + 1}).  The index is the
\* content script's own; it reports a step that has a successor
BeginStepProgress(t, stepIndex) ==
  /\ HasTask(store, t) /\ store[t].status = RUNNING
  /\ stepIndex + 1 < Len(store[t].steps)
  /\ BeginHandler(<<[kind |-> "updateStepStatus", task |-> t, step |-> stepIndex,
                     status |-> COMPLETED],
                    [kind |-> "updateTask", task |-> t,
                     updates |-> [idx |-> stepIndex + 1]]>>)

\* handleTaskStatusUpdate: updateTask(taskId, {status, ...})
BeginStatusUpdate(t, status) ==
  /\ HasTask(store, t) /\ store[t].status = RUNNING
  /\ BeginHandler(<<[kind |-> "updateTask", task |-> t, updates |-> [status |-> status]]>>)

\* handleStopTask: updateTask(taskId, {status: PENDING})
BeginStopTask(t) ==
  /\ HasTask(store, t)
  /\ BeginHandler(<<[kind |-> "updateTask", task |-> t, updates |-> [status |-> PENDING]]>>)

\* getAllTasks() has answered: the call holds its copy of the list
StorageRead(w) ==
  /\ wr.procs[w].pc = "read"
  /\ wr' = [wr EXCEPT !.procs[w].pc = "write", !.procs[w].tasks = store]
  /\ UNCHANGED <<store, storageFrame>>

\* saveTasks(tasks): the changed copy replaces the stored list (the get
\* inside saveTasks only carries the other keys of the storage entry); the
\* handler goes on to its next call or returns
StorageWrite(w) ==
  /\ wr.procs[w].pc = "write"
  /\ store' = ApplyOp(wr.procs[w].tasks, Head(wr.procs[w].ops))
  /\ wr' = IF Len(wr.procs[w].ops) > 1
           THEN [wr EXCEPT !.procs[w] = [pc |-> "read", ops |-> Tail(wr.procs[w].ops),
                                         tasks |-> <<>>]]
           ELSE [wr EXCEPT !.procs[w] = NoWriter]
  /\ UNCHANGED storageFrame

NextStorage ==
  \/ \E t \in 1..MaxTasks : BeginExecuteTask(t)
  \/ \E t \in 1..MaxTasks, stepIndex \in 0..(PipelineSteps - 1) : BeginStepProgress(t, stepIndex)
  \/ \E t \in 1..MaxTasks, status \in {COMPLETED, FAILED} : BeginStatusUpdate(t, status)
  \/ \E t \in 1..MaxTasks : BeginStopTask(t)
  \/ \E w \in 1..MaxWriters : StorageRead(w)
  \/ \E w \in 1..MaxWriters : StorageWrite(w)

SpecStorage == InitPipeline /\ [][NextStorage]_vars

\* ----------------------------------------------------------------------
\* C30: a storage call that writes a task's record does so with no other
\* call for the same task between its read and its write, and its write
\* changes the stored list exactly as its update applied to the list as
\* stored at that moment: nothing another call has written is undone.
C30_WritesSerialized ==
  [][\A w \in DOMAIN wr.procs :
       (wr.procs[w].pc = "write" /\ wr'.procs[w].pc # "write") =>
         /\ \A v \in DOMAIN wr.procs :
              (v # w /\ wr.procs[v].pc = "write") =>
                Head(wr.procs[v].ops).task # Head(wr.procs[w].ops).task
         /\ store' = ApplyOp(store, Head(wr.procs[w].ops))]_vars
\* ======================================================================
\* executeTask's probe of the page (src/unnamed/part_004:397-427) with
\* handleCheckContentScript (169-193) and handleManualInject (198-232), cut
\* at their awaits.  Runs of executeTask overlap; the tab is the user's.
\* ======================================================================
probeFrame == <<store, coordVars, updates, ctVars, histVars, session, send, parse, exec, wr>>

\* the user switches tabs, navigates or reloads: the active tab shows a
\* supported site or not, with a content script listening or not
TabChanges(site, script) ==
  /\ script => site
  /\ <<site, script>> # <<probe.site, probe.script>>
  /\ probe' = [probe EXCEPT !.site = site, !.script = script]
  /\ UNCHANGED probeFrame

\* executeTask, lines 401-408: without an active supported site it throws
RunTask(r) ==
  /\ probe.runs[r].pc \in {"idle", "done"}
  /\ probe' = [probe EXCEPT !.runs[r] =
                 IF probe.site
                 THEN [NoRun EXCEPT !.pc = "check"]
                 ELSE [NoRun EXCEPT !.pc = "done", !.result = "failed"]]
  /\ UNCHANGED probeFrame

\* an executeTask that injects whatever the probe said
NeedsInject_always(connected) == TRUE

\* executeTask, line 411: if (!check.connected)
NeedsInject(connected) == ~connected

\* handleCheckContentScript has answered: connected when there is an active
\* supported site and its content script answered the PING within 1 s
\* (timely).  In executeTask the first probe (check) leads to the submission
\* or to the injection; the probe inside handleManualInject (verify) decides
\* injectResult.success; the probe after a successful injection (recheck)
\* decides between the submission and the throw.
CheckContentScript(r, timely) ==
  /\ probe.runs[r].pc \in {"check", "verify", "recheck"}
  /\ LET run == probe.runs[r]
         connected == probe.site /\ probe.script /\ timely
         pinged == [run EXCEPT !.pings = @ + 1]
     IN probe' = [probe EXCEPT !.runs[r] =
          CASE run.pc = "check" ->
                 IF NeedsInject(connected)
                 THEN [pinged EXCEPT !.pc = "inject",
                                     !.first = IF connected THEN "alive" ELSE "dead"]
                 ELSE [pinged EXCEPT !.pc = "done", !.first = "alive",
                                     !.result = "connected"]
            [] run.pc = "verify" ->
                 IF connected THEN [pinged EXCEPT !.pc = "recheck"]
                 ELSE [pinged EXCEPT !.pc = "done", !.result = "failed"]
            [] run.pc = "recheck" ->
                 [pinged EXCEPT !.pc = "done",
                                !.result = IF connected THEN "connected" ELSE "failed"]]
  /\ UNCHANGED probeFrame

\* handleManualInject up to its probe: without an active supported site it
\* returns failure at once; otherwise chrome.scripting.executeScript is
\* called, which puts the content script into the tab (injected) or throws
ManualInject(r, injected) ==
  /\ probe.runs[r].pc = "inject"
  /\ IF ~probe.site
     THEN probe' = [probe EXCEPT !.runs[r].pc = "done", !.runs[r].result = "failed"]
     ELSE IF injected
     THEN probe' = [probe EXCEPT !.script = TRUE,
                                 !.runs[r].pc = "verify", !.runs[r].injections = @ + 1]
     ELSE probe' = [probe EXCEPT !.runs[r].pc = "done", !.runs[r].result = "failed",
                                 !.runs[r].injections = @ + 1]
  /\ UNCHANGED probeFrame

NextProbe ==
  \/ \E site \in BOOLEAN, script \in BOOLEAN : TabChanges(site, script)
  \/ \E r \in 1..MaxRuns : RunTask(r)
  \/ \E r \in 1..MaxRuns, timely \in BOOLEAN : CheckContentScript(r, timely)
  \/ \E r \in 1..MaxRuns, injected \in BOOLEAN : ManualInject(r, injected)

SpecProbe == Init /\ [][NextProbe]_vars

\* ----------------------------------------------------------------------
\* C31: a run of executeTask calls the injection at most once, only after
\* its first probe of the page found no content script answering, and never
\* when that probe reported the page connected.
C31_InjectOnlyAfterFailedProbe ==
  \A r \in DOMAIN probe.runs :
    /\ probe.runs[r].injections <= 1
    /\ probe.runs[r].pc \in {"inject", "verify", "recheck"} => probe.runs[r].first = "dead"
    /\ probe.runs[r].injections = 1 => probe.runs[r].first = "dead"
    /\ probe.runs[r].first = "alive" =>
         (probe.runs[r].injections = 0 /\ probe.runs[r].pings = 1)

\* a run whose first probe failed has injected once and then found the page
\* connected twice
C31_Witness ==
  \E r \in DOMAIN probe.runs :
    /\ probe.runs[r].pc = "done" /\ probe.runs[r].result = "connected"
    /\ probe.runs[r].first = "dead"
    /\ probe.runs[r].injections = 1 /\ probe.runs[r].pings = 3
\* ----------------------------------------------------------------------
\* how far a step has come: Pending, then Running, then Completed or Failed
StepRank(status) ==
  CASE status = PENDING -> 0
    [] status = RUNNING -> 1
    [] status \in {COMPLETED, FAILED} -> 2

\* C32: no step of the program moves the persisted status of a task's step
\* backwards, or changes it once it is Completed or Failed; and a run of
\* executeMultiStep submits its steps in rising order, each while it is
\* marked Running.
C32_StepsOnlyAdvance ==
  [][/\ \A t \in DOMAIN store : \A i \in DOMAIN store[t].steps :
          /\ StepRank(store'[t].steps[i]) >= StepRank(store[t].steps[i])
          /\ StepRank(store[t].steps[i]) = 2 => store'[t].steps[i] = store[t].steps[i]
     /\ (exec.task # None /\ exec'.task = exec.task) => exec'.i >= exec.i
     /\ (exec.pc = "submit" /\ exec'.pc # "submit" /\ store[exec.task].steps # <<>>) =>
          /\ exec'.content = [kind |-> "step", index |-> exec.i]
          /\ store[exec.task].steps[exec.i + 1] = RUNNING]_vars
ExactSeparatorAt(s, i) ==
  /\ SeparatorAt(s, i)
  /\ i > 1 => s[i - 1] # "-"
  /\ i + Len(STEP_SEPARATOR) <= Len(s) => s[i + Len(STEP_SEPARATOR)] # "-"

\* C35: a content is split into steps only at runs of exactly eight dashes:
\* when it holds no such run (its dashes come in shorter or longer runs) it
\* has no steps, and it never has more steps than such runs plus one.
C35_OnlyEightDashesSplit ==
  (parse.pc # "idle" /\ parse.first.present) =>
    /\ \E i \in 1..Len(parse.content) : ExactSeparatorAt(parse.content, i)
    /\ Len(parse.first.steps) <=
         1 + Cardinality({i \in 1..Len(parse.content) : ExactSeparatorAt(parse.content, i)})
\* ----------------------------------------------------------------------
\* the activations of startNextPendingTask that are inside executeTask
QueueRuns == {a \in DOMAIN acts : acts[a].origin = "queue" /\ acts[a].pc \in {"probe", "awaitSubmit"}}

\* C36: of the scheduling triggers that overlap (NEW_TASK_ADDED messages,
\* terminal status updates) at most one is inside executeTask at any time,
\* so they never both start a task, and no task is handed to the page by two
\* of them.
C36_OneTriggerStarts == Cardinality(QueueRuns) <= 1
\* ----------------------------------------------------------------------
\* C37: when handleStopTask goes on after its STOP_TASK message and the
\* pointer is by then on another task (the stopped task's terminal update
\* was handled in between and the next task was started), the pointer stays
\* on that task.
C37_StopKeepsOtherPointer ==
  [][\A a \in DOMAIN acts :
       (/\ acts[a].pc = "stopSend" /\ acts'[a] = NoAct
        /\ currentTask # None /\ currentTask # acts[a].task) =>
         currentTask' = currentTask]_vars
\* ----------------------------------------------------------------------
\* C38: no monitoring tick of a live session runs while another tick is
\* still inside executeNextStep (in its settle delay or in the submission
\* of the next step), whatever the watchdog has restarted.
C38_OneTickAtATime ==
  [][\A status \in {RUNNING, COMPLETED, FAILED} :
       (MonitoringTick(status) /\ ctAdapter) =>
         \A k \in DOMAIN ctx : ctx[k].pc = "none"]_vars
\* ----------------------------------------------------------------------
\* C39: when currentTask is null, no handler of the service worker is
\* suspended at an await and no message to it is waiting to be handled, no
\* task in the store is Running.
C39_NoOrphanRunning ==
  (/\ currentTask = None
   /\ \A a \in DOMAIN acts : acts[a] = NoAct
   /\ updates = <<>> /\ newTaskMsgs = 0) =>
    RunningTasks(store) = {}
\* ----------------------------------------------------------------------
\* C40: whenever the stored status of a task with steps is Completed, the
\* stored status of every one of its steps is Completed.
C40_CompletedTaskHasCompletedSteps ==
  \A t \in DOMAIN store :
    (store[t].steps # <<>> /\ store[t].status = COMPLETED) =>
      \A i \in DOMAIN store[t].steps : store[t].steps[i] = COMPLETED
====
